---- MODULE Spec2Model ----
(***************************************************************************)
(* Sweep-line band decomposition of a rectilinear polygon (2025/day9):     *)
(* Problem::edges, BandIter::from_edges, BandIter::next and                *)
(* for_each_contained_rectangle / part2, checked against a rasterized      *)
(* fill of the polygon.                                                    *)
(***************************************************************************)
EXTENDS Integers, Sequences, FiniteSets, TLC

VARIABLES
    entry_point,  \* "problem": a Problem is solved; "direct": BandIter::from_edges is called on an edge list;
                  \* "render": divide_range is called
    red,          \* Problem::red, the vertex list
    edges,        \* the edge sequence handed to BandIter::from_edges
    pc,           \* position: "edges", "from_edges", "next", "body", "done", "failed"
    err,          \* the assertion or panic that failed, "" if none
    next_row,     \* BandIter::next_row
    next,         \* BandIter::next, in the heap's iteration order
    unreached,    \* BandIter::unreached, in the heap's iteration order
    bands,        \* the bands returned by BandIter::next so far
    none_calls,   \* calls of BandIter::next that returned None
    flags,        \* includes_bottom_edge of each band returned so far
    active,       \* for_each_contained_rectangle: active
    emitted,      \* the pairs passed to the callback, in order
    largest,      \* part2: largest
    div_range,    \* divide_range: range
    div_scale,    \* divide_range: scale
    div_start,    \* divide_range: start, captured by the closure
    yielded,      \* the subranges the iterator has returned so far
    overflow_checks  \* the build panics on integer overflow (debug) or wraps (release)

render_vars == <<div_range, div_scale, div_start, yielded, overflow_checks>>

vars == <<entry_point, red, edges, pc, err, next_row, next, unreached, bands,
          none_calls, flags, active, emitted, largest, render_vars>>

\* ------------------------------------------------------------------ bounds

\* The polygons enumerated lie on rows 0..MaxRow and columns 0..MaxCol.
MaxRow == 2
MaxCol == 3
\* The longest vertex list of an enumerated polygon, and the most vertices of
\* it that lie in the middle of a straight side.
MaxVerts == 7
MaxMid == 0
\* The longest malformed vertex list or edge list.
MaxSmall == 2
\* Calls of BandIter::next made after it has returned None.
MaxNoneCalls == 1

\* The most vertices of a loop that need not be simple.
MaxLoop == 6

\* divide_range: u64 is cut down to the values below MaxWord, and scale is at
\* most MaxScale.
MaxWord == 16
MaxScale == 4

\* ------------------------------------------------------------------ helpers

Min(a, b) == IF a <= b THEN a ELSE b
Max(a, b) == IF a >= b THEN a ELSE b

SeqSet(s) == {s[i] : i \in 1..Len(s)}

Reverse(s) == [i \in 1..Len(s) |-> s[Len(s) + 1 - i]]

Edge(from, to) == [start |-> from, end |-> to]

NoEdge == [start |-> <<-1, -1>>, end |-> <<-1, -1>>]

\* ------------------------------------------------------------------ edge geometry

is_vertical(e) == e.start[2] = e.end[2]

goes_down(e) == e.start[1] < e.end[1]

are_connected(a, b) == a.start = b.end \/ b.start = a.end

edge_top(e) == Min(e.start[1], e.end[1])

edge_left(e) == Min(e.start[2], e.end[2])

edge_bottom(e) == Max(e.start[1], e.end[1])

edge_right(e) == Max(e.start[2], e.end[2])

main_is_vertical(e) == e.start[1] # e.end[1] /\ e.start[2] = e.end[2]

main_is_horizontal(e) == e.start[1] = e.end[1] /\ e.start[2] # e.end[2]

\* ------------------------------------------------------------------ inputs

Grid == (0..MaxRow) \X (0..MaxCol)

\* The tiles an edge from p to q traverses.
Tiles(p, q) ==
    IF p[1] = q[1]
    THEN {<<p[1], c>> : c \in Min(p[2], q[2])..Max(p[2], q[2])}
    ELSE {<<r, p[2]>> : r \in Min(p[1], q[1])..Max(p[1], q[1])}

Aligned(p, q) == p # q /\ (p[1] = q[1] \/ p[2] = q[2])

PathTiles(path) ==
    {path[1]} \cup UNION {Tiles(path[i], path[i + 1]) : i \in 1..(Len(path) - 1)}

\* The vertices of an open path that lie between two collinear neighbours.
Collinear(p, q, r) == (p[1] = q[1] /\ q[1] = r[1]) \/ (p[2] = q[2] /\ q[2] = r[2])

Mids(path) == Cardinality({i \in 2..(Len(path) - 1) : Collinear(path[i - 1], path[i], path[i + 1])})

LexLess(p, q) == p[1] < q[1] \/ (p[1] = q[1] /\ p[2] < q[2])

\* The open paths that extend path by one vertex without touching a tile the
\* path already traverses. A path starts at its least vertex (row-major) and
\* leaves it along its row.
Extend(path) ==
    LET last == path[Len(path)]
        used == PathTiles(path)
    IN  {Append(path, q) : q \in
            {q \in Grid : /\ Aligned(last, q)
                          /\ LexLess(path[1], q)
                          /\ Len(path) = 1 => q[1] = last[1]
                          /\ (Tiles(last, q) \ {last}) \cap used = {}
                          /\ Mids(Append(path, q)) <= MaxMid}}

\* The closing edge from the last vertex to the first touches the path only
\* at its two ends.
Closes(path) ==
    LET last == path[Len(path)]
    IN  /\ Len(path) >= 4
        /\ Aligned(last, path[1])
        /\ Tiles(last, path[1]) \cap PathTiles(path) = {last, path[1]}
        /\ Mids(path \o <<path[1], path[2]>>) <= MaxMid

RECURSIVE Grow(_, _)
Grow(paths, n) ==
    LET closed == {p \in paths : Closes(p)}
    IN  IF n >= MaxVerts \/ paths = {}
        THEN closed
        ELSE closed \cup Grow(UNION {Extend(p) : p \in paths}, n + 1)

\* Every simple rectilinear polygon of the grid with at most MaxVerts
\* vertices, traversed clockwise from its top-left vertex.
Clockwise == Grow({<<p>> : p \in Grid}, 1)

\* Both directions of traversal.
Polygons == Clockwise \cup {Reverse(p) : p \in Clockwise}

\* Simple: consecutive sides share their common vertex only, other sides
\* share no tile. The tiles two sides share are those of the rows and of the
\* columns that both span.
ValidPolygon(v) ==
    LET n == Len(v)
        a(i) == v[i]
        b(i) == v[(i % n) + 1]
        top(i, j) == Max(Min(a(i)[1], b(i)[1]), Min(a(j)[1], b(j)[1]))
        bottom(i, j) == Min(Max(a(i)[1], b(i)[1]), Max(a(j)[1], b(j)[1]))
        left(i, j) == Max(Min(a(i)[2], b(i)[2]), Min(a(j)[2], b(j)[2]))
        right(i, j) == Min(Max(a(i)[2], b(i)[2]), Max(a(j)[2], b(j)[2]))
        Disjoint(i, j) == top(i, j) > bottom(i, j) \/ left(i, j) > right(i, j)
        MeetOnlyAt(i, j, p) ==
            /\ top(i, j) = p[1] /\ bottom(i, j) = p[1]
            /\ left(i, j) = p[2] /\ right(i, j) = p[2]
    IN  /\ n >= 4
        /\ \A i \in 1..n : Aligned(a(i), b(i))
        /\ \A i \in 1..n : \A j \in (i + 1)..n :
              IF j = i + 1 THEN MeetOnlyAt(i, j, v[j])
              ELSE IF i = 1 /\ j = n THEN MeetOnlyAt(i, j, v[1])
              ELSE Disjoint(i, j)

\* ------------------------------------------------------------------ Problem::edges

\* let backlink = *self.red.last().unwrap()..=self.red[0];
BacklinkReversed(v) == Edge(v[1], v[Len(v)])

Backlink(v) == Edge(v[Len(v)], v[1])

\* self.red.windows(2).map(|w| from..=to)
Windows(v) == [i \in 1..(Len(v) - 1) |-> Edge(v[i], v[i + 1])]

\* The windows chained with the backlink, before the inspect closure runs.
RawEdges(v) == Windows(v) \o <<Backlink(v)>>

\* The inspect closure's two assertions on one edge.
EdgeAsserts(e) ==
    /\ main_is_horizontal(e) \/ main_is_vertical(e)
    /\ e.start # e.end

ProblemEdges ==
    /\ pc = "edges"
    /\ IF Len(red) = 0
       THEN /\ pc' = "failed"
            /\ err' = "unwrap on empty red"
            /\ edges' = <<>>
       ELSE IF \E i \in 1..Len(red) : ~EdgeAsserts(RawEdges(red)[i])
       THEN /\ pc' = "failed"
            /\ err' = "edge is neither horizontal nor vertical"
            /\ edges' = <<>>
       ELSE /\ pc' = "from_edges"
            /\ err' = ""
            /\ edges' = RawEdges(red)
    /\ UNCHANGED <<entry_point, red, next_row, next, unreached, bands, none_calls,
                   flags, active, emitted, largest>>
    /\ UNCHANGED render_vars

\* ------------------------------------------------------------------ heaps

\* A BinaryHeap is kept as the sequence of its elements in iteration order.
\* EdgeByTop and EdgeByBottom are reversed so that the heap's greatest element
\* is the edge that comes first by (top, left), respectively (bottom, left).
EdgeByTop(l, r) ==
    \/ edge_top(l) < edge_top(r)
    \/ edge_top(l) = edge_top(r) /\ edge_left(l) < edge_left(r)

EdgeByBottom(l, r) ==
    \/ edge_bottom(l) < edge_bottom(r)
    \/ edge_bottom(l) = edge_bottom(r) /\ edge_left(l) < edge_left(r)

\* The index peek() looks at: the first element no other element precedes.
RECURSIVE PeekFrom(_, _, _, _)
PeekFrom(heap, Before(_, _), best, i) ==
    IF i > Len(heap)
    THEN best
    ELSE PeekFrom(heap, Before, IF Before(heap[i], heap[best]) THEN i ELSE best, i + 1)

PeekIndex(heap, Before(_, _)) == PeekFrom(heap, Before, 1, 2)

RemoveAt(s, i) == SubSeq(s, 1, i - 1) \o SubSeq(s, i + 1, Len(s))

\* DrainUnreached that also brings in the edges that start one row later.
RECURSIVE DrainUnreachedEager(_, _, _)
DrainUnreachedEager(unr, nxt, row) ==
    IF unr = <<>>
    THEN [unreached |-> unr, next |-> nxt]
    ELSE LET i == PeekIndex(unr, EdgeByTop)
         IN  IF edge_top(unr[i]) <= row + 1
             THEN DrainUnreachedEager(RemoveAt(unr, i), Append(nxt, unr[i]), row)
             ELSE [unreached |-> unr, next |-> nxt]

\* while let Some(v) = unreached.peek_mut().filter(|e| edge_top(e) == row)
\*     { next.push(PeekMut::pop(v)); }
RECURSIVE DrainUnreached(_, _, _)
DrainUnreached(unr, nxt, row) ==
    IF unr = <<>>
    THEN [unreached |-> unr, next |-> nxt]
    ELSE LET i == PeekIndex(unr, EdgeByTop)
         IN  IF edge_top(unr[i]) = row
             THEN DrainUnreached(RemoveAt(unr, i), Append(nxt, unr[i]), row)
             ELSE [unreached |-> unr, next |-> nxt]

\* ------------------------------------------------------------------ BandIter::from_edges

\* The assertion that fails on the i-th edge while the edges are collected,
\* "" if none does.
InspectErrorNoChain(es, i) ==
    IF es[i].start = es[i].end
    THEN "edge's endpoints are not different"
    ELSE IF ~(es[i].start[1] = es[i].end[1] \/ es[i].start[2] = es[i].end[2])
    THEN "edge is neither horizontal nor vertical"
    ELSE ""

InspectError(es, i) ==
    IF es[i].start = es[i].end
    THEN "edge's endpoints are not different"
    ELSE IF ~(es[i].start[1] = es[i].end[1] \/ es[i].start[2] = es[i].end[2])
    THEN "edge is neither horizontal nor vertical"
    ELSE IF i > 1 /\ es[i - 1].end # es[i].start
    THEN "prev_end != edge.start"
    ELSE ""

FromEdgesError(es) ==
    IF \E i \in 1..Len(es) : InspectError(es, i) # ""
    THEN InspectError(es, CHOOSE i \in 1..Len(es) :
                              /\ InspectError(es, i) # ""
                              /\ \A j \in 1..(i - 1) : InspectError(es, j) = "")
    ELSE IF ~(Len(es) > 1)
    THEN "edges.len() > 1"
    ELSE IF es[1].start # es[Len(es)].end
    THEN "first start != prev_end"
    ELSE ""

FromEdges ==
    /\ pc = "from_edges"
    /\ IF FromEdgesError(edges) # ""
       THEN /\ pc' = "failed"
            /\ err' = FromEdgesError(edges)
            /\ UNCHANGED <<next_row, next, unreached>>
       ELSE LET top_edge == edges[PeekIndex(edges, EdgeByTop)]
                row == edge_top(top_edge)
                d == DrainUnreached(edges, <<>>, row)
            IN  /\ pc' = "next"
                /\ err' = ""
                /\ next_row' = row
                /\ next' = d.next
                /\ unreached' = d.unreached
    /\ UNCHANGED <<entry_point, red, edges, bands, none_calls, flags, active,
                   emitted, largest>>
    /\ UNCHANGED render_vars

\* ------------------------------------------------------------------ sorting

\* slice::sort of integers and Vec::dedup.
RECURSIVE InsertInt(_, _)
InsertInt(s, x) ==
    IF s = <<>> \/ s[Len(s)] <= x
    THEN Append(s, x)
    ELSE Append(InsertInt(SubSeq(s, 1, Len(s) - 1), x), s[Len(s)])

RECURSIVE SortInts(_)
SortInts(s) ==
    IF s = <<>> THEN <<>> ELSE InsertInt(SortInts(SubSeq(s, 1, Len(s) - 1)), s[Len(s)])

\* Dedup that takes the sorted values for pairs and keeps every second one.
RECURSIVE DedupPairs(_)
DedupPairs(s) ==
    IF Len(s) <= 1 THEN s ELSE <<s[1]>> \o DedupPairs(SubSeq(s, 3, Len(s)))

RECURSIVE Dedup(_)
Dedup(s) ==
    IF Len(s) <= 1
    THEN s
    ELSE LET front == Dedup(SubSeq(s, 1, Len(s) - 1))
         IN  IF front[Len(front)] = s[Len(s)] THEN front ELSE Append(front, s[Len(s)])

\* The comparison without by_right: edges with the same left end are ordered
\* by arrival alone.
SortLessNoRight(a, b) ==
    \/ edge_left(a) < edge_left(b)
    \/ edge_left(a) = edge_left(b) /\ a.end = b.start

\* The comparison closure of edges.sort_by: by_left.then(by_right).then(by_arrival)
\* is Less.
SortLess(a, b) ==
    \/ edge_left(a) < edge_left(b)
    \/ /\ edge_left(a) = edge_left(b)
       /\ \/ edge_right(a) < edge_right(b)
          \/ edge_right(a) = edge_right(b) /\ a.end = b.start

\* A stable sort of a short slice: each element is shifted left past the
\* elements it is Less than.
RECURSIVE InsertEdge(_, _)
InsertEdge(s, e) ==
    IF s = <<>> \/ ~SortLess(e, s[Len(s)])
    THEN Append(s, e)
    ELSE Append(InsertEdge(SubSeq(s, 1, Len(s) - 1), e), s[Len(s)])

RECURSIVE SortEdges(_)
SortEdges(s) ==
    IF s = <<>> THEN <<>> ELSE InsertEdge(SortEdges(SubSeq(s, 1, Len(s) - 1)), s[Len(s)])

\* ------------------------------------------------------------------ BandIter::next

Run(from, to) == [start |-> from, end |-> to]

\* The columns one edge of `next` contributes to reds.
EdgeRedsStartOnly(e, band_top) ==
    IF e.start[1] = e.end[1]
    THEN <<e.start[2], e.end[2]>>
    ELSE IF e.start[1] = band_top
    THEN <<e.start[2]>>
    ELSE <<>>

EdgeReds(e, band_top) ==
    IF e.start[1] = e.end[1]
    THEN <<e.start[2], e.end[2]>>
    ELSE IF e.start[1] = band_top \/ e.end[1] = band_top
    THEN <<e.start[2]>>
    ELSE <<>>

RECURSIVE RedsWithDups(_, _)
RedsWithDups(nxt, band_top) ==
    IF nxt = <<>>
    THEN <<>>
    ELSE RedsWithDups(SubSeq(nxt, 1, Len(nxt) - 1), band_top)
            \o EdgeReds(nxt[Len(nxt)], band_top)

\* push_run that always extends the prior range, gap or no gap.
push_runAlwaysExtends(runs, new_run) ==
    IF runs = <<>>
    THEN <<new_run>>
    ELSE [runs EXCEPT ![Len(runs)].end = Max(runs[Len(runs)].end, new_run.end)]

push_run(runs, new_run) ==
    IF runs = <<>>
    THEN <<new_run>>
    ELSE LET last == runs[Len(runs)]
         IN  IF last.end < new_run.start
             THEN Append(runs, new_run)
             ELSE [runs EXCEPT ![Len(runs)].end = Max(last.end, new_run.end)]

\* entry.start().1..edge.start().1 + 1
ExitRunExclusive(entry, edge) == Run(entry.start[2], edge.start[2])

ExitRunSwapped(entry, edge) == Run(edge.start[2] + 1, entry.start[2])

ExitRun(entry, edge) == Run(entry.start[2], edge.start[2] + 1)

Outside == [inside |-> FALSE, entry |-> NoEdge, dangling |-> NoEdge]

Inside(entry, dangling) == [inside |-> TRUE, entry |-> entry, dangling |-> dangling]

TouchesTop(e, band_top) == e.start[1] = band_top \/ e.end[1] = band_top

\* ScanStep that finds a bottom edge only where it hangs from the entry edge.
ScanStepEntryOnly(s, edge, band_top) ==
    LET st == s.state
        exit == [s EXCEPT !.runs = push_run(s.runs, ExitRun(st.entry, edge)),
                          !.state = Outside]
    IN
    IF is_vertical(edge)
    THEN IF ~st.inside
         THEN [s EXCEPT !.state = Inside(edge, IF TouchesTop(edge, band_top) THEN edge ELSE NoEdge)]
         ELSE IF st.dangling = NoEdge
         THEN IF are_connected(edge, st.entry)
              THEN IF is_vertical(edge) = is_vertical(st.entry)
                   THEN s
                   ELSE [s EXCEPT !.err = "is_vertical(edge) == is_vertical(entry)"]
              ELSE IF TouchesTop(edge, band_top)
              THEN [s EXCEPT !.state = Inside(st.entry, edge)]
              ELSE exit
         ELSE IF ~are_connected(edge, st.dangling)
         THEN [s EXCEPT !.err = "are_connected(edge, dangling)"]
         ELSE IF goes_down(edge) = goes_down(st.entry)
         THEN [s EXCEPT !.state = Inside(st.entry, NoEdge)]
         ELSE exit
    ELSE IF ~st.inside
         THEN [s EXCEPT !.err = "bare horizontal edge outside"]
         ELSE IF st.dangling = NoEdge
         THEN [s EXCEPT !.err = "bare horizontal edge inside"]
         ELSE IF ~are_connected(edge, st.dangling)
         THEN [s EXCEPT !.err = "are_connected(edge, dangling)"]
         ELSE [s EXCEPT !.state = Inside(st.entry, edge),
                        !.includes_bottom_edge =
                            \/ s.includes_bottom_edge
                            \/ /\ st.dangling = st.entry
                               /\ edge_bottom(st.dangling) = band_top]

\* ScanStep that tests the top of the entry edge where the code tests its
\* bottom.
ScanStepEntryTop(s, edge, band_top) ==
    LET st == s.state
        exit == [s EXCEPT !.runs = push_run(s.runs, ExitRun(st.entry, edge)),
                          !.state = Outside]
    IN
    IF is_vertical(edge)
    THEN IF ~st.inside
         THEN [s EXCEPT !.state = Inside(edge, IF TouchesTop(edge, band_top) THEN edge ELSE NoEdge)]
         ELSE IF st.dangling = NoEdge
         THEN IF are_connected(edge, st.entry)
              THEN IF is_vertical(edge) = is_vertical(st.entry)
                   THEN s
                   ELSE [s EXCEPT !.err = "is_vertical(edge) == is_vertical(entry)"]
              ELSE IF TouchesTop(edge, band_top)
              THEN [s EXCEPT !.state = Inside(st.entry, edge)]
              ELSE exit
         ELSE IF ~are_connected(edge, st.dangling)
         THEN [s EXCEPT !.err = "are_connected(edge, dangling)"]
         ELSE IF goes_down(edge) = goes_down(st.entry)
         THEN [s EXCEPT !.state = Inside(st.entry, NoEdge)]
         ELSE exit
    ELSE IF ~st.inside
         THEN [s EXCEPT !.err = "bare horizontal edge outside"]
         ELSE IF st.dangling = NoEdge
         THEN [s EXCEPT !.err = "bare horizontal edge inside"]
         ELSE IF ~are_connected(edge, st.dangling)
         THEN [s EXCEPT !.err = "are_connected(edge, dangling)"]
         ELSE [s EXCEPT !.state = Inside(st.entry, edge),
                        !.includes_bottom_edge =
                            \/ s.includes_bottom_edge
                            \/ IF st.dangling = st.entry
                               THEN edge_top(st.dangling) = band_top
                               ELSE /\ is_vertical(st.dangling)
                                    /\ edge_top(st.dangling) = band_top]

\* ScanStep for a loop traversed clockwise only: an edge that goes up is a
\* left wall.
ScanStepClockwise(s, edge, band_top) ==
    LET st == s.state
        exit == [s EXCEPT !.runs = push_run(s.runs, ExitRun(st.entry, edge)),
                          !.state = Outside]
    IN
    IF is_vertical(edge)
    THEN IF ~st.inside
         THEN [s EXCEPT !.state = Inside(edge, IF TouchesTop(edge, band_top) THEN edge ELSE NoEdge)]
         ELSE IF st.dangling = NoEdge
         THEN IF are_connected(edge, st.entry)
              THEN IF is_vertical(edge) = is_vertical(st.entry)
                   THEN s
                   ELSE [s EXCEPT !.err = "is_vertical(edge) == is_vertical(entry)"]
              ELSE IF TouchesTop(edge, band_top)
              THEN [s EXCEPT !.state = Inside(st.entry, edge)]
              ELSE exit
         ELSE IF ~are_connected(edge, st.dangling)
         THEN [s EXCEPT !.err = "are_connected(edge, dangling)"]
         ELSE IF ~goes_down(edge)
         THEN [s EXCEPT !.state = Inside(st.entry, NoEdge)]
         ELSE exit
    ELSE IF ~st.inside
         THEN [s EXCEPT !.err = "bare horizontal edge outside"]
         ELSE IF st.dangling = NoEdge
         THEN [s EXCEPT !.err = "bare horizontal edge inside"]
         ELSE IF ~are_connected(edge, st.dangling)
         THEN [s EXCEPT !.err = "are_connected(edge, dangling)"]
         ELSE [s EXCEPT !.state = Inside(st.entry, edge),
                        !.includes_bottom_edge =
                            \/ s.includes_bottom_edge
                            \/ IF st.dangling = st.entry
                               THEN edge_bottom(st.dangling) = band_top
                               ELSE /\ is_vertical(st.dangling)
                                    /\ edge_top(st.dangling) = band_top]

\* One iteration of `for edge in edges` on the scan record
\* [state, runs, includes_bottom_edge, err].
ScanStep(s, edge, band_top) ==
    LET st == s.state
        exit == [s EXCEPT !.runs = push_run(s.runs, ExitRun(st.entry, edge)),
                          !.state = Outside]
    IN
    IF is_vertical(edge)
    THEN IF ~st.inside
         THEN [s EXCEPT !.state = Inside(edge, IF TouchesTop(edge, band_top) THEN edge ELSE NoEdge)]
         ELSE IF st.dangling = NoEdge
         THEN IF are_connected(edge, st.entry)
              THEN IF is_vertical(edge) = is_vertical(st.entry)
                   THEN s
                   ELSE [s EXCEPT !.err = "is_vertical(edge) == is_vertical(entry)"]
              ELSE IF TouchesTop(edge, band_top)
              THEN [s EXCEPT !.state = Inside(st.entry, edge)]
              ELSE exit
         ELSE IF ~are_connected(edge, st.dangling)
         THEN [s EXCEPT !.err = "are_connected(edge, dangling)"]
         ELSE IF goes_down(edge) = goes_down(st.entry)
         THEN [s EXCEPT !.state = Inside(st.entry, NoEdge)]
         ELSE exit
    ELSE IF ~st.inside
         THEN [s EXCEPT !.err = "bare horizontal edge outside"]
         ELSE IF st.dangling = NoEdge
         THEN [s EXCEPT !.err = "bare horizontal edge inside"]
         ELSE IF ~are_connected(edge, st.dangling)
         THEN [s EXCEPT !.err = "are_connected(edge, dangling)"]
         ELSE [s EXCEPT !.state = Inside(st.entry, edge),
                        !.includes_bottom_edge =
                            \/ s.includes_bottom_edge
                            \/ IF st.dangling = st.entry
                               THEN edge_bottom(st.dangling) = band_top
                               ELSE /\ is_vertical(st.dangling)
                                    /\ edge_top(st.dangling) = band_top]

RECURSIVE Scan(_, _, _)
Scan(s, sorted, band_top) ==
    IF sorted = <<>> \/ s.err # ""
    THEN s
    ELSE Scan(ScanStep(s, Head(sorted), band_top), Tail(sorted), band_top)

\* ScanRow with the automaton's assertions and panics switched off.
ScanRowUnchecked(sorted, band_top) ==
    [Scan([state |-> Outside, runs |-> <<>>, includes_bottom_edge |-> FALSE,
           err |-> ""], sorted, band_top) EXCEPT !.err = ""]

ScanRow(sorted, band_top) ==
    LET s == Scan([state |-> Outside, runs |-> <<>>, includes_bottom_edge |-> FALSE,
                   err |-> ""], sorted, band_top)
    IN  IF s.err = "" /\ s.state.inside
        THEN [s EXCEPT !.err = "state is not Outside"]
        ELSE s

\* while let Some(maybe_done) = self.next.peek_mut() { ... PeekMut::pop(maybe_done); }
\* band_top <= maybe_done_bottom is asserted on every edge peeked at.
\* DropDone that also pops the edges ending one row below band_top.
RECURSIVE DropDoneOffByOne(_, _)
DropDoneOffByOne(nxt, band_top) ==
    IF nxt = <<>>
    THEN [next |-> nxt, err |-> ""]
    ELSE LET i == PeekIndex(nxt, EdgeByBottom)
         IN  IF ~(band_top <= edge_bottom(nxt[i]))
             THEN [next |-> nxt, err |-> "band_top <= maybe_done_bottom"]
             ELSE IF band_top + 1 < edge_bottom(nxt[i])
             THEN [next |-> nxt, err |-> ""]
             ELSE DropDoneOffByOne(RemoveAt(nxt, i), band_top)

RECURSIVE DropDone(_, _)
DropDone(nxt, band_top) ==
    IF nxt = <<>>
    THEN [next |-> nxt, err |-> ""]
    ELSE LET i == PeekIndex(nxt, EdgeByBottom)
         IN  IF ~(band_top <= edge_bottom(nxt[i]))
             THEN [next |-> nxt, err |-> "band_top <= maybe_done_bottom"]
             ELSE IF band_top < edge_bottom(nxt[i])
             THEN [next |-> nxt, err |-> ""]
             ELSE DropDone(RemoveAt(nxt, i), band_top)

\* band_bottom taken from `next` alone whenever `next` has an edge left.
BandBottomNextFirst(includes_bottom_edge, nxt, unr, band_top) ==
    IF includes_bottom_edge
    THEN band_top
    ELSE IF nxt = <<>> /\ unr = <<>>
    THEN band_top
    ELSE IF nxt # <<>>
    THEN edge_bottom(nxt[PeekIndex(nxt, EdgeByBottom)]) - 1
    ELSE edge_top(unr[PeekIndex(unr, EdgeByTop)]) - 1

\* band_bottom computed without looking at includes_bottom_edge.
BandBottomIgnoresBottomEdge(includes_bottom_edge, nxt, unr, band_top) ==
    IF nxt = <<>> /\ unr = <<>>
    THEN band_top
    ELSE IF unr = <<>>
    THEN edge_bottom(nxt[PeekIndex(nxt, EdgeByBottom)]) - 1
    ELSE IF nxt = <<>>
    THEN edge_top(unr[PeekIndex(unr, EdgeByTop)]) - 1
    ELSE Min(edge_bottom(nxt[PeekIndex(nxt, EdgeByBottom)]),
             edge_top(unr[PeekIndex(unr, EdgeByTop)])) - 1

\* The match on (self.next.peek(), self.unreached.peek()); the subtraction is
\* on u64, so 0 - 1 is reported as -1 and caught by the caller.
BandBottom(includes_bottom_edge, nxt, unr, band_top) ==
    IF includes_bottom_edge
    THEN band_top
    ELSE IF nxt = <<>> /\ unr = <<>>
    THEN band_top
    ELSE IF unr = <<>>
    THEN edge_bottom(nxt[PeekIndex(nxt, EdgeByBottom)]) - 1
    ELSE IF nxt = <<>>
    THEN edge_top(unr[PeekIndex(unr, EdgeByTop)]) - 1
    ELSE Min(edge_bottom(nxt[PeekIndex(nxt, EdgeByBottom)]),
             edge_top(unr[PeekIndex(unr, EdgeByTop)])) - 1

\* self.next_row = band_bottom + 1
NextRowOverlaps(band_bottom) == band_bottom

NextRowStuck(band_bottom) == IF band_bottom > 0 THEN band_bottom - 1 ELSE 0

NextRowAfter(band_bottom) == band_bottom + 1

\* The whole of BandIter::next on a non-empty `next`: the band, the iterator's
\* new fields, and the assertion that failed, if one did.
NextResult(row, nxt, unr) ==
    LET band_top == row
        with_dups == SortInts(RedsWithDups(nxt, band_top))
        reds == Dedup(with_dups)
        scan == ScanRow(SortEdges(nxt), band_top)
        dropped == DropDone(nxt, band_top)
        band_bottom == BandBottom(scan.includes_bottom_edge, dropped.next, unr, band_top)
        d == DrainUnreached(unr, dropped.next, NextRowAfter(band_bottom))
        failure ==
            IF \E i \in 1..Len(nxt) :
                   nxt[i].start[1] = nxt[i].end[1] /\ nxt[i].start[1] # band_top
            THEN "horizontal edge is not on band_top"
            ELSE IF Len(reds) * 2 # Len(with_dups)
            THEN "reds.len() * 2 == with_dups"
            ELSE IF scan.err # ""
            THEN scan.err
            ELSE IF dropped.err # ""
            THEN dropped.err
            ELSE IF band_bottom < 0
            THEN "attempt to subtract with overflow"
            ELSE IF ~(band_top <= band_bottom)
            THEN "band_top <= band_bottom"
            ELSE ""
    IN  IF failure # ""
        THEN [err |-> failure]
        ELSE [err |-> "",
              band |-> [rows |-> Run(band_top, band_bottom), runs |-> scan.runs, reds |-> reds],
              includes_bottom_edge |-> scan.includes_bottom_edge,
              next_row |-> NextRowAfter(band_bottom),
              next |-> d.next,
              unreached |-> d.unreached]

\* BandIter::next yielding the band it was building when an assertion fails.
BandIterNextYieldsPartial ==
    /\ pc \in {"next", "done"}
    /\ IF next = <<>>
       THEN /\ pc' = "done"
            /\ pc = "done" => none_calls <= MaxNoneCalls
            /\ none_calls' = none_calls + 1
            /\ UNCHANGED <<err, next_row, next, unreached, bands, flags>>
       ELSE LET r == NextResult(next_row, next, unreached)
            IN  IF r.err # ""
                THEN /\ pc' = "failed"
                     /\ err' = r.err
                     /\ bands' = Append(bands, [rows |-> Run(next_row, next_row),
                                                runs |-> <<>>, reds |-> <<>>])
                     /\ UNCHANGED <<next_row, next, unreached, flags, none_calls>>
                ELSE /\ pc' = IF entry_point = "problem" THEN "body" ELSE "next"
                     /\ bands' = Append(bands, r.band)
                     /\ flags' = Append(flags, r.includes_bottom_edge)
                     /\ next_row' = r.next_row
                     /\ next' = r.next
                     /\ unreached' = r.unreached
                     /\ UNCHANGED <<err, none_calls>>
    /\ UNCHANGED <<entry_point, red, edges, active, emitted, largest>>
    /\ UNCHANGED render_vars

\* BandIter::next, called by the for loop of for_each_contained_rectangle, or
\* by the caller of from_edges, or called again once it has returned None.
BandIterNext ==
    /\ pc \in {"next", "done"}
    /\ IF next = <<>>
       THEN /\ pc' = "done"
            /\ pc = "done" => none_calls <= MaxNoneCalls
            /\ none_calls' = none_calls + 1
            /\ UNCHANGED <<err, next_row, next, unreached, bands, flags>>
       ELSE LET r == NextResult(next_row, next, unreached)
            IN  IF r.err # ""
                THEN /\ pc' = "failed"
                     /\ err' = r.err
                     /\ UNCHANGED <<next_row, next, unreached, bands, flags, none_calls>>
                ELSE /\ pc' = IF entry_point = "problem" THEN "body" ELSE "next"
                     /\ bands' = Append(bands, r.band)
                     /\ flags' = Append(flags, r.includes_bottom_edge)
                     /\ next_row' = r.next_row
                     /\ next' = r.next
                     /\ unreached' = r.unreached
                     /\ UNCHANGED <<err, none_calls>>
    /\ UNCHANGED <<entry_point, red, edges, active, emitted, largest>>
    /\ UNCHANGED render_vars

\* ------------------------------------------------------------------ for_each_contained_rectangle

ActiveRed(tile, visible) == [red |-> tile, visible |-> visible]

Contains(range, x) == range.start <= x /\ x < range.end

\* intersection: None is reported as the empty range <<>>.
intersectionKeepsRun(a, b) == <<b>>

intersection(a, b) ==
    LET candidate == Run(Max(a.start, b.start), Min(a.end, b.end))
    IN  IF ~(candidate.start >= candidate.end) THEN <<candidate>> ELSE <<>>

\* The loop at the head of the retain_mut closure without `runs = rest`.
PopRunsKeepsFront(runs, col) == runs

\* The loop at the head of the retain_mut closure: the runs left once those
\* ending at or before the tile's column are popped.
RECURSIVE PopRuns(_, _)
PopRuns(runs, col) ==
    IF runs = <<>> \/ col < Head(runs).end THEN runs ELSE PopRuns(Tail(runs), col)

\* active.retain_mut(...): `runs` is shared by the calls of the closure.
RECURSIVE Cull(_, _)
Cull(act, runs) ==
    IF act = <<>>
    THEN <<>>
    ELSE LET a == Head(act)
             left == PopRuns(runs, a.red[2])
         IN  IF left = <<>>
             THEN Cull(Tail(act), left)
             ELSE IF ~Contains(Head(left), a.red[2])
             THEN Cull(Tail(act), left)
             ELSE IF intersection(a.visible, Head(left)) = <<>>
             THEN Cull(Tail(act), left)
             ELSE <<ActiveRed(a.red, intersection(a.visible, Head(left))[1])>>
                     \o Cull(Tail(act), left)

\* The loop that builds new_active, with each new tile visible from the start
\* of its run to its own column only.
RECURSIVE AbsorbLeftOnly(_, _, _)
AbsorbLeftOnly(reds, runs, top) ==
    IF reds = <<>>
    THEN [new |-> <<>>, err |-> ""]
    ELSE IF runs = <<>>
    THEN [new |-> <<>>, err |-> "red after last run"]
    ELSE IF Head(reds) < Head(runs).start
    THEN [new |-> <<>>, err |-> "red before first run"]
    ELSE IF Contains(Head(runs), Head(reds))
    THEN LET rest == AbsorbLeftOnly(Tail(reds), runs, top)
         IN  [new |-> <<ActiveRed(<<top, Head(reds)>>, Run(Head(runs).start, Head(reds) + 1))>>
                          \o rest.new,
              err |-> rest.err]
    ELSE AbsorbLeftOnly(reds, Tail(runs), top)

\* The loop that builds new_active: [new, err].
RECURSIVE Absorb(_, _, _)
Absorb(reds, runs, top) ==
    IF reds = <<>>
    THEN [new |-> <<>>, err |-> ""]
    ELSE IF runs = <<>>
    THEN [new |-> <<>>, err |-> "red after last run"]
    ELSE IF Head(reds) < Head(runs).start
    THEN [new |-> <<>>, err |-> "red before first run"]
    ELSE IF Contains(Head(runs), Head(reds))
    THEN LET rest == Absorb(Tail(reds), runs, top)
         IN  [new |-> <<ActiveRed(<<top, Head(reds)>>, Head(runs))>> \o rest.new,
              err |-> rest.err]
    ELSE Absorb(reds, Tail(runs), top)

\* The pairs the two emitting loops consider, in order: every active tile
\* with every new one, then every new tile with the new ones after it.
ConsideredOldNewOnly(act, new) ==
    [k \in 1..(Len(act) * Len(new)) |->
        [a |-> act[((k - 1) \div Len(new)) + 1],
         b |-> new[((k - 1) % Len(new)) + 1],
         same_band |-> FALSE]]

\* The pairs considered when the second loop pairs every new tile with every
\* other new tile, before it or after it.
ConsideredBothWays(act, new) ==
    [k \in 1..(Len(act) * Len(new)) |->
        [a |-> act[((k - 1) \div Len(new)) + 1],
         b |-> new[((k - 1) % Len(new)) + 1],
         same_band |-> FALSE]]
    \o [k \in 1..(Len(new) * Len(new)) |->
        [a |-> new[((k - 1) \div Len(new)) + 1],
         b |-> new[((k - 1) % Len(new)) + 1],
         same_band |-> TRUE]]

Considered(act, new) ==
    LET old_new == [k \in 1..(Len(act) * Len(new)) |->
                        [a |-> act[((k - 1) \div Len(new)) + 1],
                         b |-> new[((k - 1) % Len(new)) + 1],
                         same_band |-> FALSE]]
        NewPairs(i) == [j \in 1..(Len(new) - i) |->
                            [a |-> new[i], b |-> new[i + j], same_band |-> TRUE]]
        RECURSIVE From(_)
        From(i) == IF i >= Len(new) THEN <<>> ELSE NewPairs(i) \o From(i + 1)
    IN  old_new \o From(1)

\* The assertion made before a pair is tested.
MutualAssert(p) ==
    IF p.same_band
    THEN Contains(p.a.visible, p.b.red[2]) = Contains(p.b.visible, p.a.red[2])
    ELSE ~Contains(p.a.visible, p.b.red[2]) \/ Contains(p.b.visible, p.a.red[2])

\* The calls of body, up to the first assertion that fails: [calls, err].
RECURSIVE Emit(_)
Emit(pairs) ==
    IF pairs = <<>>
    THEN [calls |-> <<>>, err |-> ""]
    ELSE LET p == Head(pairs)
         IN  IF ~MutualAssert(p)
             THEN [calls |-> <<>>, err |-> "visibility is not mutual"]
             ELSE LET rest == Emit(Tail(pairs))
                  IN  [calls |-> (IF Contains(p.a.visible, p.b.red[2])
                                  THEN <<<<p.a.red, p.b.red>>>>
                                  ELSE <<>>) \o rest.calls,
                       err |-> rest.err]

\* active.sort_by_key(|tile| tile.red.1), a stable sort.
RECURSIVE InsertActive(_, _)
InsertActive(s, a) ==
    IF s = <<>> \/ ~(a.red[2] < s[Len(s)].red[2])
    THEN Append(s, a)
    ELSE Append(InsertActive(SubSeq(s, 1, Len(s) - 1), a), s[Len(s)])

\* active.append(&mut new_active) without the sort.
SortActiveSkipped(s) == s

RECURSIVE SortActive(_)
SortActive(s) ==
    IF s = <<>> THEN <<>> ELSE InsertActive(SortActive(SubSeq(s, 1, Len(s) - 1)), s[Len(s)])

\* part2's area.
areaOfCorners(a, b) == (Max(a[1], b[1]) - Min(a[1], b[1])) * (Max(a[2], b[2]) - Min(a[2], b[2]))

area(a, b) ==
    LET top == Min(a[1], b[1])
        bottom == Max(a[1], b[1])
        left == Min(a[2], b[2])
        right == Max(a[2], b[2])
    IN  (bottom - top + 1) * (right - left + 1)

\* part2's closure, applied to the calls in order.
RECURSIVE Largest(_, _)
Largest(l, calls) ==
    IF calls = <<>>
    THEN l
    ELSE LET ar == area(Head(calls)[1], Head(calls)[2])
         IN  Largest(IF ar > l THEN ar ELSE l, Tail(calls))

\* The body of `for band in bands`.
ForBody ==
    /\ pc = "body"
    /\ LET band == bands[Len(bands)]
           culled == Cull(active, band.runs)
           absorbed == Absorb(band.reds, band.runs, band.rows.start)
           emit == Emit(Considered(culled, absorbed.new))
       IN  IF absorbed.err # ""
           THEN /\ pc' = "failed"
                /\ err' = absorbed.err
                /\ active' = culled
                /\ UNCHANGED <<emitted, largest>>
           ELSE /\ emitted' = emitted \o emit.calls
                /\ largest' = Largest(largest, emit.calls)
                /\ IF emit.err # ""
                   THEN /\ pc' = "failed"
                        /\ err' = emit.err
                        /\ active' = culled
                   ELSE /\ pc' = "next"
                        /\ err' = ""
                        /\ active' = SortActive(culled \o absorbed.new)
    /\ UNCHANGED <<entry_point, red, edges, next_row, next, unreached, bands,
                   none_calls, flags>>
    /\ UNCHANGED render_vars

\* ------------------------------------------------------------------ the inputs of a run

\* The shapes of the repository's tests (bands.rs test, part2.rs tests).
SQUARE_SIMPLE == <<<<12, 10>>, <<12, 20>>, <<22, 20>>, <<22, 10>>>>

REVERSED_SQUARE == <<<<22, 20>>, <<12, 20>>, <<12, 10>>, <<22, 10>>>>

U_SHAPE ==
    <<<<10, 10>>, <<10, 20>>, <<20, 20>>, <<20, 30>>, <<10, 30>>, <<10, 40>>, <<30, 40>>, <<30, 10>>>>

J_SHAPE ==
    <<<<10, 10>>, <<10, 20>>, <<30, 20>>, <<30, 30>>, <<20, 30>>, <<20, 40>>, <<40, 40>>, <<40, 10>>>>

LOWER_CASE_R_SHAPE ==
    <<<<10, 10>>, <<10, 40>>, <<30, 40>>, <<30, 30>>, <<20, 30>>, <<20, 20>>, <<40, 20>>, <<40, 10>>>>

SQUARE_WITH_MIDPOINTS_CLOCKWISE ==
    <<<<10, 10>>, <<10, 20>>, <<10, 30>>, <<20, 30>>, <<30, 30>>, <<30, 20>>, <<30, 10>>, <<20, 10>>>>

SQUARE_WITH_MIDPOINTS_COUNTERCLOCKWISE ==
    <<<<10, 10>>, <<20, 10>>, <<30, 10>>, <<30, 20>>, <<30, 30>>, <<20, 30>>, <<10, 30>>, <<10, 20>>>>

EXAMPLE ==
    <<<<1, 7>>, <<1, 11>>, <<7, 11>>, <<7, 9>>, <<5, 9>>, <<5, 2>>, <<3, 2>>, <<3, 7>>>>

TestShapes ==
    {SQUARE_SIMPLE, REVERSED_SQUARE, U_SHAPE, J_SHAPE, LOWER_CASE_R_SHAPE,
     SQUARE_WITH_MIDPOINTS_CLOCKWISE, SQUARE_WITH_MIDPOINTS_COUNTERCLOCKWISE, EXAMPLE}

\* Every vertex list of at most MaxSmall vertices: the degenerate loops.
RECURSIVE ListsOver(_, _)
ListsOver(S, n) ==
    IF n = 0
    THEN {<<>>}
    ELSE LET shorter == ListsOver(S, n - 1)
         IN  shorter \cup {Append(l, x) : l \in {m \in shorter : Len(m) = n - 1}, x \in S}

SmallLists == ListsOver(Grid, MaxSmall)

\* The edge lists handed to BandIter::from_edges directly: any edges between
\* the four tiles of the grid's corner, in any order.
Corner == {p \in Grid : p[1] <= 1 /\ p[2] <= 1}

EdgeLists == ListsOver({Edge(p, q) : p \in Corner, q \in Corner}, MaxSmall)

\* No call of divide_range is under way.
IdleRender ==
    /\ div_range = [start |-> 0, end |-> 0]
    /\ div_scale = 1
    /\ div_start = 0
    /\ yielded = <<>>
    /\ overflow_checks = TRUE

Start(kind, vertices, edge_list) ==
    /\ entry_point = kind
    /\ red = vertices
    /\ edges = edge_list
    /\ pc = IF kind = "problem" THEN "edges" ELSE "from_edges"
    /\ err = ""
    /\ next_row = 0
    /\ next = <<>>
    /\ unreached = <<>>
    /\ bands = <<>>
    /\ none_calls = 0
    /\ flags = <<>>
    /\ active = <<>>
    /\ emitted = <<>>
    /\ largest = 1
    /\ IdleRender

Init ==
    \/ \E v \in Polygons \cup TestShapes \cup SmallLists : Start("problem", v, <<>>)
    \/ \E es \in EdgeLists : Start("direct", <<>>, es)

Next ==
    \/ ProblemEdges
    \/ FromEdges
    \/ BandIterNext
    \/ ForBody

Spec == Init /\ [][Next]_vars

\* ------------------------------------------------------------------ render.rs: divide_range

\* u64 addition: [value, overflow].
AddU64(a, b) == [value |-> (a + b) % MaxWord, overflow |-> a + b >= MaxWord]

\* render.rs's intersection: None is reported as the empty sequence.
render_intersection(a, b) ==
    LET candidate == Run(Max(a.start, b.start), Min(a.end, b.end))
    IN  IF candidate.start < candidate.end THEN <<candidate>> ELSE <<>>

\* let mut start = range.start - range.start % scale;
DivideRange ==
    /\ pc = "divide_range"
    /\ IF div_scale = 0
       THEN /\ pc' = "failed"
            /\ err' = "attempt to calculate the remainder with a divisor of zero"
            /\ UNCHANGED div_start
       ELSE /\ pc' = "from_fn"
            /\ err' = ""
            /\ div_start' = div_range.start - (div_range.start % div_scale)
    /\ UNCHANGED <<entry_point, red, edges, next_row, next, unreached, bands,
                   none_calls, flags, active, emitted, largest, div_range, div_scale,
                   yielded, overflow_checks>>

\* One call of the closure handed to from_fn, made by a consumer (collect,
\* zip) that stops at the first None.
FromFn ==
    /\ pc = "from_fn"
    /\ LET sum == AddU64(div_start, div_scale)
           chunk == Run(div_start, sum.value)
           item == render_intersection(chunk, div_range)
       IN  IF sum.overflow /\ overflow_checks
           THEN /\ pc' = "failed"
                /\ err' = "attempt to add with overflow"
                /\ UNCHANGED <<div_start, yielded>>
           ELSE /\ div_start' = sum.value
                /\ err' = ""
                /\ IF item = <<>>
                   THEN /\ pc' = "exhausted"
                        /\ UNCHANGED yielded
                   ELSE /\ pc' = "from_fn"
                        /\ yielded' = Append(yielded, item[1])
    /\ UNCHANGED <<entry_point, red, edges, next_row, next, unreached, bands,
                   none_calls, flags, active, emitted, largest, div_range, div_scale,
                   overflow_checks>>

\* divide_range is called on any range and scale, in either build.
DivideInit ==
    /\ entry_point = "render"
    /\ red = <<>>
    /\ edges = <<>>
    /\ pc = "divide_range"
    /\ err = ""
    /\ next_row = 0
    /\ next = <<>>
    /\ unreached = <<>>
    /\ bands = <<>>
    /\ none_calls = 0
    /\ flags = <<>>
    /\ active = <<>>
    /\ emitted = <<>>
    /\ largest = 1
    /\ div_range \in {Run(a, b) : a \in 0..(MaxWord - 1), b \in 0..(MaxWord - 1)}
    /\ div_scale \in 0..MaxScale
    /\ div_start = 0
    /\ yielded = <<>>
    /\ overflow_checks \in BOOLEAN

DivideNext ==
    \/ DivideRange
    \/ FromFn

DivideSpec == DivideInit /\ [][DivideNext]_vars

\* ------------------------------------------------------------------ collecting the bands of a loop

\* The loop v entered k vertices later.
Rotate(v, k) == [i \in 1..Len(v) |-> v[((i + k - 1) % Len(v)) + 1]]

\* The loop v entered at any of its vertices and traversed in either direction.
Traversals(v) ==
    {Rotate(v, k) : k \in 0..(Len(v) - 1)} \cup {Rotate(Reverse(v), k) : k \in 0..(Len(v) - 1)}

\* The calls of next until one returns None or fails: [bands, err]. The
\* result r of a call is bound as the element of a set, which evaluates it
\* once.
RECURSIVE CollectFrom(_, _, _, _)
CollectFrom(row, nxt, unr, acc) ==
    IF nxt = <<>>
    THEN [bands |-> acc, err |-> ""]
    ELSE CHOOSE c \in
             {IF r.err # ""
              THEN [bands |-> acc, err |-> r.err]
              ELSE CollectFrom(r.next_row, r.next, r.unreached, Append(acc, r.band)) :
                  r \in {NextResult(row, nxt, unr)}} : TRUE

\* BandIter::from_edges(es).collect::<Vec<_>>()
Collect(es) ==
    IF FromEdgesError(es) # ""
    THEN [bands |-> <<>>, err |-> FromEdgesError(es)]
    ELSE CHOOSE c \in
             {CollectFrom(d.row, d.next, d.unreached, <<>>) :
                  d \in {[row |-> row] @@ DrainUnreached(es, <<>>, row) :
                            row \in {edge_top(es[PeekIndex(es, EdgeByTop)])}}} : TRUE

\* The bands of the loop `red` are collected as it is written.
CollectBands ==
    /\ pc = "collect"
    /\ \E c \in {Collect(edges)} :
          /\ bands' = c.bands
          /\ err' = c.err
          /\ pc' = IF c.err = "" THEN "collected" ELSE "failed"
    /\ UNCHANGED <<entry_point, red, edges, next_row, next, unreached, none_calls,
                   flags, active, emitted, largest>>
    /\ UNCHANGED render_vars

\* The bands of the same loop are collected again, the loop entered at
\* another vertex or traversed the other way.
Retraverse ==
    /\ pc = "collected"
    /\ edges = RawEdges(red)
    /\ \E t \in Traversals(red) :
          \E c \in {Collect(RawEdges(t))} :
              /\ edges' = RawEdges(t)
              /\ bands' = c.bands
              /\ err' = c.err
              /\ pc' = IF c.err = "" THEN "collected" ELSE "failed"
    /\ UNCHANGED <<entry_point, red, next_row, next, unreached, none_calls, flags,
                   active, emitted, largest>>
    /\ UNCHANGED render_vars

TraversalInit ==
    \E v \in Clockwise \cup TestShapes :
        /\ entry_point = "direct"
        /\ red = v
        /\ edges = RawEdges(v)
        /\ pc = "collect"
        /\ err = ""
        /\ next_row = 0
        /\ next = <<>>
        /\ unreached = <<>>
        /\ bands = <<>>
        /\ none_calls = 0
        /\ flags = <<>>
        /\ active = <<>>
        /\ emitted = <<>>
        /\ largest = 1
        /\ IdleRender

TraversalNext ==
    \/ CollectBands
    \/ Retraverse

TraversalSpec == TraversalInit /\ [][TraversalNext]_vars

\* ------------------------------------------------------------------ loops that need not be simple

\* Edge p..=q and edge q..=r are perpendicular.
Perp(p, q, r) == (p[1] = q[1]) # (q[1] = r[1])

\* The open paths that extend path by one vertex, each edge perpendicular to
\* the one before it; the path may cross or touch itself.
LoopExtend(path) ==
    LET n == Len(path)
    IN  {Append(path, q) : q \in
            {q \in Grid : /\ Aligned(path[n], q)
                          /\ LexLess(path[1], q)
                          /\ n >= 2 => Perp(path[n - 1], path[n], q)}}

\* The backlink is an edge, perpendicular to both its neighbours; a path of
\* two vertices closes into a line traversed there and back.
LoopCloses(path) ==
    LET n == Len(path)
    IN  /\ n >= 2
        /\ Aligned(path[n], path[1])
        /\ n > 2 => /\ Perp(path[n - 1], path[n], path[1])
                    /\ Perp(path[n], path[1], path[2])

RECURSIVE GrowLoops(_, _)
GrowLoops(paths, n) ==
    LET closed == {p \in paths : LoopCloses(p)}
    IN  IF n >= MaxLoop \/ paths = {}
        THEN closed
        ELSE closed \cup GrowLoops(UNION {LoopExtend(p) : p \in paths}, n + 1)

\* Every closed loop of the grid with at most MaxLoop vertices whose edges
\* pass the assertions of Problem::edges and BandIter::from_edges.
Loops == GrowLoops({<<p>> : p \in Grid}, 1)

HORIZONTAL_LINE == <<<<12, 10>>, <<12, 20>>>>

VERTICAL_LINE == <<<<12, 10>>, <<22, 10>>>>

\* A polygon with a notch between vertical edges on adjacent columns.
NOTCH ==
    <<<<0, 0>>, <<0, 3>>, <<3, 3>>, <<3, 2>>, <<1, 2>>, <<1, 1>>, <<3, 1>>, <<3, 0>>>>

\* Two squares that share the vertex (1,1).
BOW_TIE ==
    <<<<0, 0>>, <<0, 1>>, <<1, 1>>, <<1, 2>>, <<2, 2>>, <<2, 1>>, <<1, 1>>, <<1, 0>>>>

\* A vertical line traversed there and back twice.
DOUBLE_LINE == <<<<0, 0>>, <<1, 0>>, <<0, 0>>, <<1, 0>>>>

\* A loop whose closing edge runs back over its first edge, past a spur.
RETRACED == <<<<0, 0>>, <<1, 0>>, <<1, 1>>, <<2, 1>>, <<2, 0>>>>

\* A loop whose top side doubles back on itself.
DOUBLED_BACK == <<<<1, 0>>, <<0, 0>>, <<0, 3>>, <<0, 1>>, <<0, 2>>, <<1, 2>>>>

\* A rectangle with a notch three rows high cut into its right side.
SIDE_NOTCH ==
    <<<<0, 0>>, <<0, 3>>, <<1, 3>>, <<1, 2>>, <<3, 2>>, <<3, 3>>, <<4, 3>>, <<4, 0>>>>

LoopShapes ==
    {HORIZONTAL_LINE, VERTICAL_LINE, NOTCH, BOW_TIE, DOUBLE_LINE, U_SHAPE, RETRACED,
     DOUBLED_BACK, SIDE_NOTCH, LOWER_CASE_R_SHAPE}

\* A loop is handed to part2 as a vertex list, or its edges to
\* BandIter::from_edges.
LoopInit ==
    \E v \in Loops \cup LoopShapes :
        \/ Start("problem", v, <<>>)
        \/ Start("direct", v, RawEdges(v))

LoopSpec == LoopInit /\ [][Next]_vars

\* ------------------------------------------------------------------ the rasterized fill

Vertices(v) == {v[i] : i \in 1..Len(v)}

MinRowOf(v) == CHOOSE r \in {p[1] : p \in Vertices(v)} : \A p \in Vertices(v) : r <= p[1]

MaxRowOf(v) == CHOOSE r \in {p[1] : p \in Vertices(v)} : \A p \in Vertices(v) : r >= p[1]

MinColOf(v) == CHOOSE c \in {p[2] : p \in Vertices(v)} : \A p \in Vertices(v) : c <= p[2]

MaxColOf(v) == CHOOSE c \in {p[2] : p \in Vertices(v)} : \A p \in Vertices(v) : c >= p[2]

\* The i-th side of the closed loop v, as its two ends.
Side(v, i) == <<v[i], v[(i % Len(v)) + 1]>>

OnSide(p, q, t) ==
    \/ p[1] = q[1] /\ t[1] = p[1] /\ Min(p[2], q[2]) <= t[2] /\ t[2] <= Max(p[2], q[2])
    \/ p[2] = q[2] /\ t[2] = p[2] /\ Min(p[1], q[1]) <= t[1] /\ t[1] <= Max(p[1], q[1])

OnBoundary(v, t) == \E i \in 1..Len(v) : OnSide(Side(v, i)[1], Side(v, i)[2], t)

\* The vertical sides strictly left of tile t that a ray from t to the left
\* crosses: a side counts on its rows except its bottom one.
CrossedLeft(v, t) ==
    {i \in 1..Len(v) :
        LET p == Side(v, i)[1]
            q == Side(v, i)[2]
        IN  /\ p[2] = q[2]
            /\ p[2] < t[2]
            /\ Min(p[1], q[1]) <= t[1]
            /\ t[1] < Max(p[1], q[1])}

\* Tile t is on the boundary of the polygon v or inside it (even-odd rule).
Filled(v, t) == OnBoundary(v, t) \/ Cardinality(CrossedLeft(v, t)) % 2 = 1

FilledCols(v, r) == {c \in (MinColOf(v) - 1)..(MaxColOf(v) + 1) : Filled(v, <<r, c>>)}

RunCols(runs) == UNION {runs[k].start..(runs[k].end - 1) : k \in 1..Len(runs)}

\* The filled tiles among the rows and columns the vertices of v span.
FilledTiles(v) ==
    {t \in {<<r, c>> : r \in MinRowOf(v)..MaxRowOf(v), c \in MinColOf(v)..MaxColOf(v)} :
        Filled(v, t)}

\* The tiles of the rectangle with corners a and b.
Box(a, b) == (Min(a[1], b[1])..Max(a[1], b[1])) \X (Min(a[2], b[2])..Max(a[2], b[2]))

BoxFilled(v, a, b) == \A t \in Box(a, b) : Filled(v, t)

Abs(x) == IF x < 0 THEN -x ELSE x

BoxArea(a, b) == (Abs(a[1] - b[1]) + 1) * (Abs(a[2] - b[2]) + 1)

\* The pairs of distinct vertices whose rectangle is filled entirely.
EnclosedPairs(v) ==
    LET filled == FilledTiles(v)
    IN  {pair \in Vertices(v) \X Vertices(v) :
            pair[1] # pair[2] /\ Box(pair[1], pair[2]) \subseteq filled}

MaxOf(S) == CHOOSE x \in S : \A y \in S : y <= x

Solving == entry_point = "problem" /\ ValidPolygon(red)

Ended == pc \in {"done", "failed"}

BandRows(i) == bands[i].rows.start..bands[i].rows.end

\* ------------------------------------------------------------------ claims

\* C1 (partition): for a valid polygon, every band has top <= bottom, each
\* band starts on the row after the previous band's bottom, the first band
\* starts on the least vertex row, and when the iteration has ended the last
\* band ends on the greatest vertex row, so that every row from the least to
\* the greatest vertex row lies in exactly one band.
C1_Partition ==
    entry_point = "problem" =>
        \/ /\ \A i \in 1..Len(bands) : bands[i].rows.start <= bands[i].rows.end
           /\ \A i \in 2..Len(bands) : bands[i].rows.start = bands[i - 1].rows.end + 1
           /\ Len(bands) >= 1 => bands[1].rows.start = MinRowOf(red)
           /\ Ended =>
                 /\ Len(bands) >= 1
                 /\ bands[Len(bands)].rows.end = MaxRowOf(red)
                 /\ \A r \in MinRowOf(red)..MaxRowOf(red) :
                       Cardinality({i \in 1..Len(bands) : r \in BandRows(i)}) = 1
        \/ ~ValidPolygon(red)

C1_Witness ==
    /\ Solving
    /\ pc = "done"
    /\ Len(bands) >= 4
    /\ \E i \in 1..Len(bands) : bands[i].rows.start < bands[i].rows.end
    /\ \E i \in 1..Len(bands) : bands[i].rows.start = bands[i].rows.end

\* C2 (run consistency): for a valid polygon, on every row of every band the
\* columns whose tile is inside or on the boundary of the polygon are exactly
\* the columns of the band's runs.
C2_RunConsistency ==
    entry_point = "problem" =>
        \/ \A i \in 1..Len(bands) :
               \A r \in BandRows(i) : FilledCols(red, r) = RunCols(bands[i].runs)
        \/ ~ValidPolygon(red)

C2_Witness ==
    /\ Solving
    /\ \E i \in 1..Len(bands) :
          /\ bands[i].rows.start < bands[i].rows.end
          /\ Len(bands[i].runs) >= 2
          /\ FilledCols(red, bands[i].rows.end) # {}
          /\ FilledCols(red, bands[i].rows.end) #
                MinColOf(red)..MaxColOf(red)

\* C3 (enclosure): for a valid polygon, every tile of the bounding box of
\* every pair passed to the callback is inside or on the boundary.
C3_Enclosure ==
    entry_point = "problem" /\ emitted # <<>> =>
        \/ LET filled == FilledTiles(red)
           IN  \A k \in 1..Len(emitted) :
                   Box(emitted[k][1], emitted[k][2]) \subseteq filled
        \/ ~ValidPolygon(red)

C3_Witness ==
    /\ Solving
    /\ pc = "done"
    /\ \E k \in 1..Len(emitted) :
          emitted[k][1][1] # emitted[k][2][1] /\ emitted[k][1][2] # emitted[k][2][2]
    /\ \E a, b \in Vertices(red) : ~BoxFilled(red, a, b)

\* C4 (the maximum): for a valid polygon part2 returns, and what it returns
\* is the greatest area of a pair of vertices whose bounding box is inside
\* or on the boundary.
C4_Maximum ==
    Ended /\ Solving =>
        /\ pc = "done"
        /\ largest = MaxOf({BoxArea(pair[1], pair[2]) : pair \in EnclosedPairs(red)})

C4_Witness ==
    /\ Solving
    /\ pc = "done"
    /\ largest > 1
    /\ \E a, b \in Vertices(red) : BoxArea(a, b) > largest

\* C5 (every enclosed pair is emitted): for a valid polygon, once the
\* iteration is over, every two distinct vertices whose bounding box is
\* inside or on the boundary have been passed to the callback, in one order
\* or the other.
C5_EmitsEveryPair ==
    Ended /\ Solving =>
        \A pair \in EnclosedPairs(red) :
            \E k \in 1..Len(emitted) :
                emitted[k] = pair \/ emitted[k] = <<pair[2], pair[1]>>

C5_Witness ==
    /\ Solving
    /\ pc = "done"
    /\ \E pair \in EnclosedPairs(red) : pair[1][1] = pair[2][1]
    /\ \E pair \in EnclosedPairs(red) : pair[1][2] = pair[2][2]
    /\ \E pair \in EnclosedPairs(red) : pair[1][1] # pair[2][1] /\ pair[1][2] # pair[2][2]
    /\ \E a, b \in Vertices(red) : ~BoxFilled(red, a, b)

\* C6 (reds): for a valid polygon, every column of a band's reds is a vertex
\* on the band's top row, every vertex on a row of a band is on its top row
\* and in its reds, and once the iteration has ended every vertex is in the
\* reds of exactly one band.
C6_Reds ==
    entry_point = "problem" =>
        \/ /\ \A i \in 1..Len(bands) :
                 /\ \A k \in 1..Len(bands[i].reds) :
                       <<bands[i].rows.start, bands[i].reds[k]>> \in Vertices(red)
                 /\ \A p \in Vertices(red) :
                       p[1] \in BandRows(i) =>
                           /\ p[1] = bands[i].rows.start
                           /\ p[2] \in SeqSet(bands[i].reds)
           /\ Ended =>
                 \A p \in Vertices(red) :
                     Cardinality({i \in 1..Len(bands) :
                                     /\ bands[i].rows.start = p[1]
                                     /\ p[2] \in SeqSet(bands[i].reds)}) = 1
        \/ ~ValidPolygon(red)

C6_Witness ==
    /\ Solving
    /\ pc = "done"
    /\ \E i \in 1..Len(bands) : bands[i].reds = <<>>
    /\ \E i \in 1..Len(bands) : bands[i].rows.start < bands[i].rows.end /\ Len(bands[i].reds) >= 2

\* C7 (sorted and disjoint): in every band of a valid polygon the runs are
\* non-empty, each ends at or before the start of the next, and the reds
\* are strictly increasing.
C7_SortedDisjoint ==
    entry_point = "problem" =>
        \/ \A i \in 1..Len(bands) :
               /\ \A k \in 1..Len(bands[i].runs) : bands[i].runs[k].start < bands[i].runs[k].end
               /\ \A k \in 1..(Len(bands[i].runs) - 1) :
                     bands[i].runs[k].end <= bands[i].runs[k + 1].start
               /\ \A k \in 1..(Len(bands[i].reds) - 1) : bands[i].reds[k] < bands[i].reds[k + 1]
        \/ ~ValidPolygon(red)

C7_Witness ==
    /\ Solving
    /\ \E i \in 1..Len(bands) : Len(bands[i].runs) >= 2 /\ Len(bands[i].reds) >= 4

\* C8 (the edges of a vertex list): when Problem::edges yields its edges for
\* a list of n >= 2 vertices, they are n edges, the i-th starting at the
\* i-th vertex, each ending where the next starts and the last ending where
\* the first starts.
C8_Edges ==
    entry_point = "problem" /\ Len(red) >= 2 /\ edges # <<>> =>
        /\ Len(edges) = Len(red)
        /\ \A i \in 1..Len(edges) :
              /\ edges[i].start = red[i]
              /\ edges[i].end = edges[(i % Len(edges)) + 1].start

C8_Witness ==
    /\ entry_point = "problem"
    /\ pc = "from_edges"
    /\ Len(red) >= 4
    /\ Len(edges) = Len(red)

\* C9 (malformed input): a vertex list with fewer than two vertices, or with
\* two cyclically consecutive vertices equal or different in both row and
\* column, makes edge construction fail, and an edge list that is not
\* chained end to start into a closed loop makes BandIter::from_edges fail;
\* no iterator is built and no band returned.
BadVertexList(v) ==
    \/ Len(v) < 2
    \/ \E i \in 1..Len(v) :
          \/ Side(v, i)[1] = Side(v, i)[2]
          \/ Side(v, i)[1][1] # Side(v, i)[2][1] /\ Side(v, i)[1][2] # Side(v, i)[2][2]

Unchained(es) ==
    \/ \E i \in 1..(Len(es) - 1) : es[i].end # es[i + 1].start
    \/ Len(es) >= 1 /\ es[Len(es)].end # es[1].start

C9_MalformedFails ==
    /\ entry_point = "problem" /\ pc # "edges" /\ BadVertexList(red) =>
          pc = "failed" /\ edges = <<>> /\ next = <<>> /\ unreached = <<>> /\ bands = <<>>
    /\ entry_point = "direct" /\ pc # "from_edges" /\ Unchained(edges) =>
          pc = "failed" /\ next = <<>> /\ unreached = <<>> /\ bands = <<>>

C9_Witness ==
    /\ entry_point = "direct"
    /\ pc = "failed"
    /\ Len(edges) = 2
    /\ \A i \in 1..2 : edges[i].start # edges[i].end
    /\ \A i \in 1..2 : edges[i].start[1] = edges[i].end[1] \/ edges[i].start[2] = edges[i].end[2]
    /\ edges[1].end = edges[2].start
    /\ edges[2].end # edges[1].start

\* C10 (termination): for a valid polygon no call of BandIter::next fails,
\* every call that returns a band leaves next_row greater than it was and no
\* greater than the row after the greatest vertex row, so the bands are
\* finitely many; once next_row has passed the greatest vertex row no edge
\* is left, so that the next call returns None; and once a call has returned
\* None, every later call returns None and changes nothing of the iterator.
C10_Termination ==
    /\ [](Solving => pc # "failed" /\ next_row <= MaxRowOf(red) + 1)
    /\ [][Solving /\ Len(bands') > Len(bands) => next_row' > next_row]_vars
    /\ [](Solving /\ pc = "next" /\ next_row > MaxRowOf(red) => next = <<>>)
    /\ [][none_calls >= 1 =>
            /\ pc' = "done"
            /\ none_calls' = none_calls + 1
            /\ <<bands, next_row, next, unreached>>' = <<bands, next_row, next, unreached>>]_vars

C10_Witness ==
    /\ Solving
    /\ none_calls >= 2
    /\ Len(bands) >= 4

\* C11 (traversal independence): for a valid polygon, collecting the bands
\* of the loop entered at another vertex, or traversed in the other
\* direction, fails no assertion and yields the bands (rows, runs and reds)
\* that the loop as first written yields.
C11_TraversalIndependent ==
    [][pc = "collected" =>
          \/ pc' = "collected" /\ bands' = bands
          \/ ~ValidPolygon(red)]_vars

C11_Witness ==
    /\ pc = "collected"
    /\ edges # RawEdges(red)
    /\ edges[2].start = red[Len(red) - 2]
    /\ Len(bands) >= 3
    /\ \E i \in 1..Len(bands) : Len(bands[i].runs) >= 2
    /\ \E i \in 1..Len(bands) : bands[i].rows.start < bands[i].rows.end

\* The assertions of for_each_contained_rectangle's loop body.
BodyErrors == {"red after last run", "red before first run", "visibility is not mutual"}

\* C12, as stated (no partial result): when a call to BandIter::next fails, no
\* band has been returned by an earlier call and no pair has been passed to
\* the callback.
C12_NoPartialResult ==
    [][pc = "next" /\ pc' = "failed" => bands = <<>> /\ emitted = <<>>]_vars

\* C12, amended (abort at the failing call): a call to BandIter::next that
\* fails returns no band and passes no pair to the callback, and nothing
\* follows the failure: no band, no pair, no result of part2.
C12_AbortsAtFailure ==
    [][/\ pc = "next" /\ pc' = "failed" =>
              /\ bands' = bands
              /\ emitted' = emitted
              /\ largest' = largest
       /\ pc = "failed" => UNCHANGED vars]_vars

C12_Witness ==
    /\ pc = "failed"
    /\ entry_point = "problem"
    /\ err \notin BodyErrors
    /\ Len(bands) >= 1
    /\ emitted # <<>>
    /\ ~ValidPolygon(red)
\* A vertical edge passes through the interior of a horizontal edge.
ProperCross(ev, eh) ==
    /\ main_is_vertical(ev)
    /\ main_is_horizontal(eh)
    /\ edge_left(eh) < ev.start[2] /\ ev.start[2] < edge_right(eh)
    /\ edge_top(ev) < eh.start[1] /\ eh.start[1] < edge_bottom(ev)

SelfCrossing(v) ==
    \E i, j \in 1..Len(v) : ProperCross(RawEdges(v)[i], RawEdges(v)[j])

\* C13 (self-intersection is rejected): the iteration over a closed loop that
\* passes the edge assertions but has a vertical edge properly crossing a
\* horizontal edge never comes to the None that ends a complete band
\* sequence: the next call has edges to scan until an assertion fails.
C13_CrossingRejected ==
    SelfCrossing(red) =>
        /\ pc # "done"
        /\ pc = "next" => next # <<>>

C13_Witness ==
    /\ SelfCrossing(red)
    /\ entry_point = "direct"
    /\ pc = "failed"
    /\ err = "are_connected(edge, dangling)"
    /\ Len(bands) >= 1
\* The automaton before it consumes the k-th edge of the row about to be
\* scanned.
ScanBefore(k) ==
    Scan([state |-> Outside, runs |-> <<>>, includes_bottom_edge |-> FALSE, err |-> ""],
         SubSeq(SortEdges(next), 1, k - 1), next_row)

\* C14 (no assertion fails on a valid polygon): in every row scanned for a
\* valid simple polygon, a horizontal edge is consumed only in state Inside
\* with a dangling edge, an edge consumed while an edge dangles is connected to
\* it, the state after the row's last edge is Outside, and the call returns a
\* band.
C14_AutomatonAccepts ==
    pc = "next" /\ next # <<>> /\ entry_point = "problem" =>
        \/ /\ \A k \in 1..Len(next) :
                 LET st == ScanBefore(k).state
                     edge == SortEdges(next)[k]
                 IN  /\ ~is_vertical(edge) => st.inside /\ st.dangling # NoEdge
                     /\ st.inside /\ st.dangling # NoEdge => are_connected(edge, st.dangling)
           /\ ~ScanBefore(Len(next) + 1).state.inside
           /\ NextResult(next_row, next, unreached).err = ""
        \/ ~ValidPolygon(red)

C14_Witness ==
    /\ pc = "next"
    /\ entry_point = "problem"
    /\ ValidPolygon(red)
    /\ Len(bands) >= 1
    /\ Len(next) >= 5
    /\ \E k \in 1..Len(next) : ~is_vertical(next[k])
    /\ Len(ScanRow(SortEdges(next), next_row).runs) >= 2
\* ------------------------------------------------------------------ the bands the tests expect

\* Band { rows: top..=bottom, runs, reds }
Band(top, bottom, runs, reds) == [rows |-> Run(top, bottom), runs |-> runs, reds |-> reds]

IsPrefix(s, t) == Len(s) <= Len(t) /\ s = SubSeq(t, 1, Len(s))

SQUARE_SIMPLE_BANDS ==
    <<Band(12, 21, <<Run(10, 21)>>, <<10, 20>>),
      Band(22, 22, <<Run(10, 21)>>, <<10, 20>>)>>

U_SHAPE_BANDS ==
    <<Band(10, 19, <<Run(10, 21), Run(30, 41)>>, <<10, 20, 30, 40>>),
      Band(20, 29, <<Run(10, 41)>>, <<20, 30>>),
      Band(30, 30, <<Run(10, 41)>>, <<10, 40>>)>>

LOWER_CASE_R_SHAPE_ROWS ==
    <<Run(10, 19), Run(20, 20), Run(21, 29), Run(30, 30), Run(31, 39), Run(40, 40)>>

\* C15 (square): for the square (12,10),(12,20),(22,20),(22,10) the iterator
\* fails no assertion and returns the band of rows 12..=21 and then the band
\* of rows 22..=22, each with runs [10..21] and reds [10,20], and then None.
C15_SquareBands ==
    red = SQUARE_SIMPLE =>
        /\ pc # "failed"
        /\ IsPrefix(bands, SQUARE_SIMPLE_BANDS)
        /\ pc = "next" => (next = <<>> <=> bands = SQUARE_SIMPLE_BANDS)
        /\ pc = "done" => bands = SQUARE_SIMPLE_BANDS

C15_Witness ==
    /\ red = SQUARE_SIMPLE
    /\ pc = "done"
    /\ Len(bands) = 2
    /\ bands[2].rows = Run(22, 22)

\* C16 (U shape): for the U shape the iterator fails no assertion and returns
\* exactly three bands: rows 10..=19 with runs [10..21, 30..41] and reds
\* [10,20,30,40], rows 20..=29 with runs [10..41] and reds [20,30], rows
\* 30..=30 with runs [10..41] and reds [10,40]; then None.
C16_UShapeBands ==
    red = U_SHAPE =>
        /\ pc # "failed"
        /\ IsPrefix(bands, U_SHAPE_BANDS)
        /\ pc = "next" => (next = <<>> <=> bands = U_SHAPE_BANDS)
        /\ pc = "done" => bands = U_SHAPE_BANDS

C16_Witness ==
    /\ red = U_SHAPE
    /\ pc = "done"
    /\ Len(bands) = 3
    /\ Len(bands[1].runs) = 2

\* C17 (lowercase r): for the lowercase-r polygon the iterator fails no
\* assertion and returns exactly six bands, of rows 10..=19, 20..=20, 21..=29,
\* 30..=30, 31..=39 and 40..=40; the band of row 20 has the run [10..41] and
\* reds [20,30], the band of row 30 has runs [10..21, 30..41] and reds [30,40].
C17_LowerCaseRBands ==
    red = LOWER_CASE_R_SHAPE =>
        /\ pc # "failed"
        /\ IsPrefix([i \in 1..Len(bands) |-> bands[i].rows], LOWER_CASE_R_SHAPE_ROWS)
        /\ Len(bands) >= 2 => bands[2] = Band(20, 20, <<Run(10, 41)>>, <<20, 30>>)
        /\ Len(bands) >= 4 =>
               bands[4] = Band(30, 30, <<Run(10, 21), Run(30, 41)>>, <<30, 40>>)
        /\ pc = "next" => (next = <<>> <=> Len(bands) = 6)
        /\ pc = "done" => Len(bands) = 6

C17_Witness ==
    /\ red = LOWER_CASE_R_SHAPE
    /\ pc = "done"
    /\ Len(bands) = 6
    /\ flags[2] /\ flags[4]
\* C18 (example): for the EXAMPLE loop no assertion fails, the largest area
\* part2 has seen never exceeds 24, and part2 returns exactly 24.
C18_ExampleArea ==
    red = EXAMPLE /\ entry_point = "problem" =>
        /\ pc # "failed"
        /\ largest <= 24
        /\ pc = "done" => largest = 24

C18_Witness ==
    /\ red = EXAMPLE
    /\ entry_point = "problem"
    /\ pc = "done"
    /\ largest = 24
    /\ \E i \in 1..Len(emitted) : area(emitted[i][1], emitted[i][2]) = 24
VERTICAL_LINE_BANDS ==
    <<Band(12, 21, <<Run(10, 11)>>, <<10>>), Band(22, 22, <<Run(10, 11)>>, <<10>>)>>

HORIZONTAL_LINE_BANDS == <<Band(12, 12, <<Run(10, 21)>>, <<10, 20>>)>>

\* The columns of the vertices of v on the given row, ascending.
VertexColsOn(v, row) ==
    Dedup(SortInts([i \in 1..Len(SelectSeq(v, LAMBDA p : p[1] = row)) |->
                        SelectSeq(v, LAMBDA p : p[1] = row)[i][2]]))

\* C19 (degenerate lines): the loop of a single horizontal or vertical line,
\* there and back, is decomposed without error into one or more bands that
\* cover its rows, each with the line's column extent as its only run and
\* with the endpoints on its first row as reds; bands 12..=21 and 22..=22
\* with runs [10..11] and reds [10] for the vertical line (12,10)-(22,10), one
\* band 12..=12 with runs [10..21] and reds [10,20] for the horizontal line
\* (12,10)-(12,20).
C19_LinesDecompose ==
    Len(red) = 2 /\ pc \notin {"edges", "from_edges"} =>
        /\ pc # "failed"
        /\ \A i \in 1..Len(bands) :
              /\ bands[i].runs = <<Run(MinColOf(red), MaxColOf(red) + 1)>>
              /\ bands[i].reds = VertexColsOn(red, bands[i].rows.start)
        /\ pc = "done" =>
              /\ Len(bands) >= 1
              /\ bands[1].rows.start = MinRowOf(red)
              /\ bands[Len(bands)].rows.end = MaxRowOf(red)
              /\ red = VERTICAL_LINE => bands = VERTICAL_LINE_BANDS
              /\ red = HORIZONTAL_LINE => bands = HORIZONTAL_LINE_BANDS
\* C20 (bands are maximal): for a valid polygon, every band after the first
\* either has reds or has runs that differ from those of the band before it;
\* no band boundary lies where neither the runs change nor a vertex row
\* begins.
C20_BandsMaximal ==
    \/ \A i \in 2..Len(bands) :
          bands[i].reds # <<>> \/ bands[i].runs # bands[i - 1].runs
    \/ ~ValidPolygon(red)
\* C22 (queue invariant): at the start of every call of BandIter::next for a
\* valid polygon, every edge of `next` spans next_row (top <= next_row <=
\* bottom), every horizontal edge of `next` lies on next_row, and every edge of
\* `unreached` has its top below next_row.
C22_QueueInvariant ==
    entry_point = "problem" /\ pc = "next" =>
        \/ /\ \A i \in 1..Len(next) :
                 /\ edge_top(next[i]) <= next_row
                 /\ next_row <= edge_bottom(next[i])
                 /\ ~is_vertical(next[i]) => next[i].start[1] = next_row
           /\ \A i \in 1..Len(unreached) : edge_top(unreached[i]) > next_row
        \/ ~ValidPolygon(red)

C22_Witness ==
    /\ entry_point = "problem"
    /\ pc = "next"
    /\ ValidPolygon(red)
    /\ Len(bands) >= 1
    /\ unreached # <<>>
    /\ \E i \in 1..Len(next) : ~is_vertical(next[i])
    /\ \E i \in 1..Len(next) : is_vertical(next[i]) /\ edge_top(next[i]) < next_row
    /\ \E i \in 1..Len(next) : is_vertical(next[i]) /\ edge_top(next[i]) = next_row
\* Where an edge is in its life: 0 pending (in `unreached`), 1 active (in
\* `next`), 2 retired (in neither heap).
Stage(e, unr, nxt) ==
    IF e \in SeqSet(unr) THEN 0 ELSE IF e \in SeqSet(nxt) THEN 1 ELSE 2

\* from_edges has filled the heaps.
HeapsFilled == pc \notin {"edges", "from_edges"}

\* C23 (edge lifecycle): once the heaps are filled, a step leaves every edge
\* where it is or moves it one stage on, pending to active or active to
\* retired, never back and never past `next`; an edge becomes active for the
\* row its top is on and is retired by the call that scans its bottom row; no
\* edge is in a heap twice or in both heaps; and for a valid polygon both
\* heaps are empty when BandIter::next returns None.
C23_EdgeLifecycle ==
    [][/\ HeapsFilled =>
              \A i \in 1..Len(edges) :
                  LET before == Stage(edges[i], unreached, next)
                      after == Stage(edges[i], unreached', next')
                  IN  /\ after - before \in {0, 1}
                      /\ before = 0 /\ after = 1 => edge_top(edges[i]) = next_row'
                      /\ before = 1 /\ after = 2 => edge_bottom(edges[i]) = next_row
       /\ HeapsFilled' =>
              /\ SeqSet(unreached' \o next') \subseteq SeqSet(edges')
              /\ Cardinality(SeqSet(unreached' \o next')) = Len(unreached') + Len(next')
       /\ pc' = "done" =>
              \/ next' = <<>> /\ unreached' = <<>>
              \/ ~ValidPolygon(red)]_vars

C23_Witness ==
    /\ entry_point = "problem"
    /\ ValidPolygon(red)
    /\ pc = "done"
    /\ Len(edges) >= 6
    /\ Len(bands) >= 3
    /\ next = <<>>
    /\ unreached = <<>>
\* The number of times x occurs in s.
Count(s, x) == Cardinality({i \in 1..Len(s) : s[i] = x})

\* C24 (red duplication check): in the columns collected for the row about to
\* be scanned, every column occurs exactly twice when the polygon is valid;
\* when some column occurs another number of times the call fails, and a call
\* that returns a band returns each collected column once, in ascending order.
C24_RedsTwice ==
    pc = "next" /\ next # <<>> =>
        LET with_dups == RedsWithDups(next, next_row)
            r == NextResult(next_row, next, unreached)
            twice == \A i \in 1..Len(with_dups) : Count(with_dups, with_dups[i]) = 2
        IN  /\ ~twice => r.err # ""
            /\ r.err = "" =>
                  /\ SeqSet(r.band.reds) = SeqSet(with_dups)
                  /\ \A i \in 2..Len(r.band.reds) : r.band.reds[i - 1] < r.band.reds[i]
            /\ twice \/ ~ValidPolygon(red)

C24_Witness ==
    /\ pc = "failed"
    /\ err = "reds.len() * 2 == with_dups"
    /\ Len(bands) >= 1
    /\ \E i \in 1..Len(next) : Count(RedsWithDups(next, next_row), next[i].start[2]) = 4
\* C25 (one-row band at a bottom edge): whenever includes_bottom_edge is set
\* while row band_top is scanned, the band returned is the single row
\* band_top, next_row is left at band_top + 1, and the band that follows, if
\* any, starts there, wherever the next endpoint of an edge lies.
C25_BottomEdgeOneRow ==
    /\ Len(flags) = Len(bands)
    /\ \A i \in 1..Len(bands) :
          flags[i] =>
              /\ bands[i].rows.end = bands[i].rows.start
              /\ i < Len(bands) => bands[i + 1].rows.start = bands[i].rows.start + 1
              /\ i = Len(bands) => next_row = bands[i].rows.start + 1

C25_Witness ==
    \E i \in 1..(Len(bands) - 1) :
        /\ flags[i]
        /\ bands[i + 1].reds = <<>>
        /\ bands[i + 1].rows.end > bands[i + 1].rows.start
        /\ bands[i + 1].rows.start = bands[i].rows.start + 1
\* The unit cell between rows r and r + 1 and columns c and c + 1 is inside
\* the polygon v: a ray from it to the left crosses an odd number of sides.
CellInside(v, r, c) ==
    Cardinality({i \in 1..Len(v) :
        LET p == Side(v, i)[1]
            q == Side(v, i)[2]
        IN  /\ p[2] = q[2]
            /\ p[2] <= c
            /\ Min(p[1], q[1]) <= r
            /\ r + 1 <= Max(p[1], q[1])}) % 2 = 1

\* Some horizontal side of v on row r has the exterior of v below it.
ExteriorBelow(v, r) ==
    \E i \in 1..Len(v) :
        LET p == Side(v, i)[1]
            q == Side(v, i)[2]
        IN  /\ p[1] = r /\ q[1] = r
            /\ \E c \in Min(p[2], q[2])..(Max(p[2], q[2]) - 1) : ~CellInside(v, r, c)

SetsBottomEdge(k) ==
    /\ ~is_vertical(SortEdges(next)[k])
    /\ ScanBefore(k).err = ""
    /\ ScanBefore(k).state.inside
    /\ ScanBefore(k).state.dangling # NoEdge
    /\ ~ScanBefore(k).includes_bottom_edge
    /\ ScanBefore(k + 1).includes_bottom_edge

\* C27, as stated: a horizontal edge consumed in state Inside{entry,
\* dangling = d} sets includes_bottom_edge only if d is a vertical edge whose
\* bottom row is band_top, whether d is the entry edge or another edge.
C27_AttachedEdgeEndsOnRow ==
    pc = "next" =>
        \A k \in 1..Len(next) :
            SetsBottomEdge(k) =>
                LET d == ScanBefore(k).state.dangling
                IN  is_vertical(d) /\ edge_bottom(d) = next_row

\* C27, amended: a horizontal edge consumed in state Inside{entry,
\* dangling = d} sets includes_bottom_edge only if d is a vertical edge that
\* ends on band_top when d is the entry edge (bottom row band_top, it does not
\* extend below), and that starts on band_top when d is another edge (top row
\* band_top, it extends below).
C27_AttachedEdgeByCase ==
    pc = "next" =>
        \A k \in 1..Len(next) :
            SetsBottomEdge(k) =>
                LET st == ScanBefore(k).state
                IN  /\ is_vertical(st.dangling)
                    /\ st.dangling = st.entry => edge_bottom(st.dangling) = next_row
                    /\ st.dangling # st.entry => edge_top(st.dangling) = next_row

C27_Witness ==
    /\ pc = "next"
    /\ \E k \in 1..Len(next) :
          /\ SetsBottomEdge(k)
          /\ ScanBefore(k).state.dangling # ScanBefore(k).state.entry
          /\ edge_bottom(ScanBefore(k).state.dangling) > next_row
    /\ ValidPolygon(red)
\* The rows at which something next happens below band_top: the bottom rows of
\* the edges of `next` that do not end on band_top, and the top rows of the
\* edges of `unreached`.
EventRows(nxt, unr, band_top) ==
    {edge_bottom(nxt[i]) : i \in {j \in 1..Len(nxt) : edge_bottom(nxt[j]) # band_top}}
        \cup {edge_top(unr[i]) : i \in 1..Len(unr)}

\* C28: when a call yields a band without includes_bottom_edge, the band's
\* last row is one less than the smallest of the bottom rows left in `next`
\* once the edges ending on band_top are removed and the top rows in
\* `unreached`, whichever exist; it is band_top when nothing is left in either.
C28_BandBottom ==
    pc = "next" /\ next # <<>> =>
        LET r == NextResult(next_row, next, unreached)
            rows == EventRows(next, unreached, next_row)
        IN  r.err = "" /\ ~r.includes_bottom_edge =>
                /\ r.band.rows.start = next_row
                /\ rows = {} => r.band.rows.end = next_row
                /\ rows # {} => /\ \A x \in rows : r.band.rows.end < x
                                /\ r.band.rows.end + 1 \in rows

C28_Witness ==
    /\ pc = "next"
    /\ next # <<>>
    /\ unreached # <<>>
    /\ LET r == NextResult(next_row, next, unreached)
       IN  /\ r.err = ""
           /\ ~r.includes_bottom_edge
           /\ r.band.rows.end > next_row
           /\ \E i \in 1..Len(next) :
                 /\ edge_bottom(next[i]) # next_row
                 /\ \E j \in 1..Len(unreached) : edge_top(unreached[j]) < edge_bottom(next[i])
\* The runs before and after the k-th edge of the row about to be scanned.
RunsBefore(k) == ScanBefore(k).runs

RunsAfter(k) == ScanBefore(k + 1).runs

\* The k-th edge of the row ends a run, which push_run merges into the last one.
Merges(k) ==
    /\ ScanBefore(k + 1).err = ""
    /\ RunsAfter(k) # RunsBefore(k)
    /\ Len(RunsAfter(k)) = Len(RunsBefore(k))

\* The k-th edge of the row ends a run, which push_run appends.
Appends(k) ==
    /\ ScanBefore(k + 1).err = ""
    /\ Len(RunsAfter(k)) = Len(RunsBefore(k)) + 1
\* The k-th edge of the row takes the automaton from Inside to Outside.
Exits(k) ==
    /\ ScanBefore(k + 1).err = ""
    /\ ScanBefore(k).state.inside
    /\ ~ScanBefore(k + 1).state.inside

\* C29: in every band consecutive runs are apart (the previous run's end is
\* less than the next run's start), and for a valid polygon the column at the
\* previous run's end is outside the polygon on the band's rows; each run the
\* automaton pushes is merged into the last run when it starts at or before the
\* last run's end, is appended otherwise, and leaves the earlier runs as they
\* were.
C29_RunsMaximal ==
    /\ \A i \in 1..Len(bands) : \A k \in 2..Len(bands[i].runs) :
          /\ bands[i].runs[k - 1].end < bands[i].runs[k].start
          /\ \/ \A r \in bands[i].rows.start..bands[i].rows.end :
                    ~Filled(red, <<r, bands[i].runs[k - 1].end>>)
             \/ ~ValidPolygon(red)
    /\ pc = "next" =>
          \A k \in 1..Len(next) :
              LET old == RunsBefore(k)
                  new == RunsAfter(k)
                  n == Len(old)
                  new_run == ExitRun(ScanBefore(k).state.entry, SortEdges(next)[k])
              IN  /\ ScanBefore(k + 1).err = "" /\ ~Exits(k) => new = old
                  /\ Exits(k) /\ n = 0 => new = <<new_run>>
                  /\ Exits(k) /\ n > 0 =>
                        /\ SubSeq(new, 1, n - 1) = SubSeq(old, 1, n - 1)
                        /\ new[n].start = old[n].start
                        /\ new_run.start <= old[n].end =>
                              /\ Len(new) = n
                              /\ new[n].end = Max(old[n].end, new_run.end)
                        /\ new_run.start > old[n].end =>
                              /\ Len(new) = n + 1
                              /\ new[n] = old[n]
                              /\ new[n + 1] = new_run

C29_Witness ==
    /\ pc = "next"
    /\ ValidPolygon(red)
    /\ \E k \in 1..Len(next) :
          /\ Merges(k)
          /\ RunsAfter(k)[Len(RunsAfter(k))].end > RunsBefore(k)[Len(RunsBefore(k))].end
    /\ Len(bands) >= 1
\* Edges a and b have an endpoint in common.
SharesEndpoint(a, b) == {a.start, a.end} \cap {b.start, b.end} # {}

\* The k-th edge of the row about to be scanned is a horizontal edge consumed
\* in state Outside.
HorizontalOutside(k) ==
    /\ ScanBefore(k).err = ""
    /\ ~is_vertical(SortEdges(next)[k])
    /\ ~ScanBefore(k).state.inside

\* ... a horizontal edge consumed in state Inside with no dangling edge.
HorizontalInside(k) ==
    /\ ScanBefore(k).err = ""
    /\ ~is_vertical(SortEdges(next)[k])
    /\ ScanBefore(k).state.inside
    /\ ScanBefore(k).state.dangling = NoEdge

\* ... an edge consumed in state Inside with a dangling edge it shares no
\* endpoint with.
Detached(k) ==
    /\ ScanBefore(k).err = ""
    /\ ScanBefore(k).state.inside
    /\ ScanBefore(k).state.dangling # NoEdge
    /\ ~SharesEndpoint(SortEdges(next)[k], ScanBefore(k).state.dangling)

\* C30: when a row holds a horizontal edge that the automaton consumes in state
\* Outside or in state Inside with no dangling edge, or an edge that it
\* consumes in state Inside with a dangling edge it shares no endpoint with,
\* the automaton stops with an error at that edge, and the call of
\* BandIter::next fails and returns no band.
C30_ErrorTransitions ==
    [][pc = "next" =>
          \A k \in 1..Len(next) :
              HorizontalOutside(k) \/ HorizontalInside(k) \/ Detached(k) =>
                  /\ HorizontalOutside(k) =>
                        ScanBefore(k + 1).err = "bare horizontal edge outside"
                  /\ HorizontalInside(k) =>
                        ScanBefore(k + 1).err = "bare horizontal edge inside"
                  /\ Detached(k) =>
                        ScanBefore(k + 1).err = "are_connected(edge, dangling)"
                  /\ pc' = "failed"
                  /\ err' # ""
                  /\ bands' = bands
                  /\ flags' = flags]_vars

C30_Witness ==
    /\ pc = "failed"
    /\ err = "are_connected(edge, dangling)"
    /\ \E k \in 1..Len(next) : Detached(k) /\ ~is_vertical(SortEdges(next)[k])
\* The positions of the tiles of an active list.
Positions(act) == {act[i].red : i \in 1..Len(act)}

\* Range a lies within range b.
Within(a, b) == b.start <= a.start /\ a.end <= b.end

\* C31 (lifecycle of an active tile): over the body of the loop for one band,
\* every tile of the band's reds enters the active list, at the band's top row;
\* every other tile of the new list was in the old one, at the same position
\* and with a visible range within its old one; no position is listed twice;
\* and the tiles listed before lie above the band, so that a tile that was
\* dropped, or never listed, does not come back in a later band.
C31_ActiveLifecycle ==
    [][pc = "body" /\ pc' = "next" =>
          LET band == bands[Len(bands)]
          IN  /\ \A j \in 1..Len(active) : active[j].red[1] < band.rows.start
              /\ \A k \in 1..Len(band.reds) :
                    <<band.rows.start, band.reds[k]>> \in Positions(active')
              /\ \A i \in 1..Len(active') :
                    \/ \E j \in 1..Len(active) :
                          /\ active[j].red = active'[i].red
                          /\ Within(active'[i].visible, active[j].visible)
                    \/ /\ active'[i].red[1] = band.rows.start
                       /\ active'[i].red[2] \in SeqSet(band.reds)
              /\ Cardinality(Positions(active')) = Len(active')]_vars

C31_Witness ==
    /\ pc = "next"
    /\ Len(bands) >= 3
    /\ \E i \in 1..Len(active) :
          /\ active[i].red[1] < bands[Len(bands)].rows.start
          /\ \E k \in 1..Len(bands) :
                /\ bands[k].rows.start = active[i].red[1]
                /\ \E r \in 1..Len(bands[k].runs) :
                      /\ Contains(bands[k].runs[r], active[i].red[2])
                      /\ active[i].visible # bands[k].runs[r]
    /\ \E k \in 1..Len(bands) : \E c \in SeqSet(bands[k].reds) :
          <<bands[k].rows.start, c>> \notin Positions(active)

\* The runs of band k that contain column c.
RunsOver(k, c) == {r \in 1..Len(bands[k].runs) : Contains(bands[k].runs[r], c)}

\* Column c lies in a run of each of the bands k..n.
Covered(k, n, c) == \A m \in k..n : RunsOver(m, c) # {}

\* The intersection, over the bands k..n, of the run of the band that contains
\* column c.
RECURSIVE VisibleThrough(_, _, _)
VisibleThrough(k, n, c) ==
    LET run == bands[n].runs[CHOOSE r \in RunsOver(n, c) : TRUE]
    IN  IF n = k
        THEN run
        ELSE LET above == VisibleThrough(k, n - 1, c)
             IN  Run(Max(above.start, run.start), Min(above.end, run.end))

\* C32 (visibility invariant): once the body of the loop has run for a band,
\* the active tiles are exactly the red tiles of the bands so far whose column
\* lies in a run of their own band and of every band since; the visible range
\* of each is the intersection of those runs, and contains the tile's own
\* column.
C32_VisibleIsIntersection ==
    entry_point = "problem" /\ pc \in {"next", "done"} =>
        LET n == Len(bands)
        IN  /\ Positions(active) =
                   UNION {{<<bands[k].rows.start, c>> :
                              c \in {x \in SeqSet(bands[k].reds) : Covered(k, n, x)}} :
                          k \in 1..n}
            /\ \A i \in 1..Len(active) :
                  /\ Contains(active[i].visible, active[i].red[2])
                  /\ \E k \in 1..n :
                        /\ bands[k].rows.start = active[i].red[1]
                        /\ Covered(k, n, active[i].red[2])
                        /\ active[i].visible = VisibleThrough(k, n, active[i].red[2])

C32_Witness ==
    /\ entry_point = "problem"
    /\ pc = "next"
    /\ Len(bands) >= 3
    /\ \E i \in 1..Len(active) : \E k \in 1..(Len(bands) - 2) :
          /\ bands[k].rows.start = active[i].red[1]
          /\ active[i].visible # VisibleThrough(k, k, active[i].red[2])
          /\ active[i].visible # VisibleThrough(Len(bands), Len(bands), active[i].red[2])
    /\ \E k \in 1..Len(bands) : \E c \in SeqSet(bands[k].reds) :
          <<bands[k].rows.start, c>> \notin Positions(active)

\* C33 (active list sorted): the active list is sorted by column, and so the
\* cull step, which walks the band's runs once from left to right, retains
\* exactly the active tiles whose column lies in a run of the band, in the
\* order they were in.
C33_ActiveSorted ==
    /\ \A i \in 2..Len(active) : active[i - 1].red[2] <= active[i].red[2]
    /\ pc = "body" =>
          LET band == bands[Len(bands)]
              kept == Cull(active, band.runs)
              InRun(a) == \E r \in 1..Len(band.runs) : Contains(band.runs[r], a.red[2])
          IN  /\ Positions(kept) = {active[i].red : i \in {j \in 1..Len(active) : InRun(active[j])}}
              /\ \A i \in 2..Len(kept) : kept[i - 1].red[2] <= kept[i].red[2]

C33_Witness ==
    /\ pc = "body"
    /\ Len(bands[Len(bands)].runs) >= 2
    /\ Len(active) >= 3
    /\ \E i \in 2..Len(active) : active[i].red[1] < active[i - 1].red[1]
    /\ \E i \in 1..Len(active) :
          /\ Contains(bands[Len(bands)].runs[2], active[i].red[2])
          /\ active[i].red \in Positions(Cull(active, bands[Len(bands)].runs))

\* Tile a sees the column of tile b.
Sees(a, b) == a.visible.start <= b.red[2] /\ b.red[2] < a.visible.end

\* C34 (visibility is mutual): for a valid polygon, in every band two new tiles
\* see each other's column or neither does, a new tile sees the column of
\* every retained older tile that sees its column, and the assertions on
\* visibility never fail.
C34_MutualVisibility ==
    entry_point = "problem" =>
        \/ /\ err # "visibility is not mutual"
           /\ pc = "body" =>
                 LET band == bands[Len(bands)]
                     old == Cull(active, band.runs)
                     new == Absorb(band.reds, band.runs, band.rows.start).new
                 IN  /\ \A i \in 1..Len(new) : \A j \in 1..Len(new) :
                           Sees(new[i], new[j]) <=> Sees(new[j], new[i])
                     /\ \A i \in 1..Len(old) : \A j \in 1..Len(new) :
                           Sees(old[i], new[j]) => Sees(new[j], old[i])
        \/ ~ValidPolygon(red)

C34_Witness ==
    /\ entry_point = "problem"
    /\ pc = "body"
    /\ ValidPolygon(red)
    /\ LET band == bands[Len(bands)]
           old == Cull(active, band.runs)
           new == Absorb(band.reds, band.runs, band.rows.start).new
       IN  /\ \E i \in 1..Len(old) : \E j \in 1..Len(new) :
                 ~Sees(old[i], new[j]) /\ Sees(new[j], old[i])
           /\ \E i \in 1..Len(old) : \E j \in 1..Len(new) : Sees(old[i], new[j])

\* C35 (every red lies in a run): in every band produced for a valid polygon
\* each column of reds lies in exactly one run of the band, and the absorb
\* step never reaches "red before first run" or "red after last run".
C35_RedsInRuns ==
    entry_point = "problem" =>
        \/ /\ err \notin {"red before first run", "red after last run"}
           /\ \A i \in 1..Len(bands) : \A k \in 1..Len(bands[i].reds) :
                 Cardinality(RunsOver(i, bands[i].reds[k])) = 1
           /\ pc = "body" =>
                 LET band == bands[Len(bands)]
                     absorbed == Absorb(band.reds, band.runs, band.rows.start)
                 IN  /\ absorbed.err = ""
                     /\ [k \in 1..Len(absorbed.new) |-> absorbed.new[k].red[2]] = band.reds
        \/ ~ValidPolygon(red)

C35_Witness ==
    /\ entry_point = "problem"
    /\ pc = "next"
    /\ ValidPolygon(red)
    /\ \E i \in 1..Len(bands) :
          /\ Len(bands[i].runs) >= 2
          /\ \E k \in 1..Len(bands[i].reds) : RunsOver(i, bands[i].reds[k]) = {2}
          /\ \E k \in 1..Len(bands[i].reds) : RunsOver(i, bands[i].reds[k]) = {1}

\* Tile a comes before tile b: on a row above, or on the same row to the left.
Before(a, b) == a[1] < b[1] \/ (a[1] = b[1] /\ a[2] < b[2])

\* C36 (each pair once, in order): the calls of the callback name pairwise
\* different pairs of tiles, each call passes two different tiles, the one on
\* the smaller row (on equal rows, in the smaller column) first, and a call is
\* made in the body of the loop for the band whose top row is the larger of the
\* two rows.
C36_PairsOnce ==
    [][/\ \A i \in 1..Len(emitted') :
             /\ Before(emitted'[i][1], emitted'[i][2])
             /\ \A j \in 1..Len(emitted') :
                   {emitted'[i][1], emitted'[i][2]} = {emitted'[j][1], emitted'[j][2]} => i = j
       /\ SubSeq(emitted', 1, Len(emitted)) = emitted
       /\ Len(emitted') > Len(emitted) =>
             /\ pc = "body"
             /\ \A i \in (Len(emitted) + 1)..Len(emitted') :
                   emitted'[i][2][1] = bands[Len(bands)].rows.start]_vars

C36_Witness ==
    /\ pc = "done"
    /\ Len(bands) >= 4
    /\ \E i \in 1..Len(emitted) : emitted[i][1][1] = emitted[i][2][1]
    /\ \E i \in 1..Len(emitted) : emitted[i][1][1] < emitted[i][2][1] /\ emitted[i][1][2] > emitted[i][2][2]
    /\ Len(emitted) >= 8

\* main.rs's area with the corner tiles left out of the count.
main_areaExclusive(a, b) ==
    (Max(a[1], b[1]) - Min(a[1], b[1])) * (Max(a[2], b[2]) - Min(a[2], b[2]))

\* main.rs's area: ul and lr are the upper left and lower right corners.
main_area(a, b) ==
    LET ul == <<Min(a[1], b[1]), Min(a[2], b[2])>>
        lr == <<Max(a[1], b[1]), Max(a[2], b[2])>>
    IN  (lr[1] + 1 - ul[1]) * (lr[2] + 1 - ul[2])

\* The pairs part1 maps area over: every red[i] with every red[j], j < i.
part1Pairs(v) ==
    {p \in {<<i, j>> : i \in 1..Len(v), j \in 1..Len(v)} : p[2] < p[1]}

\* part1: the maximum of the areas; max() of no pair is None, which unwrap()
\* panics on, reported as -1.
part1(v) ==
    IF part1Pairs(v) = {}
    THEN -1
    ELSE MaxOf({main_area(v[p[1]], v[p[2]]) : p \in part1Pairs(v)})

\* C37 (part2 against part1): for a valid polygon the largest area part2 has
\* seen, and so its result, is at least 1 and at most part1's result; and for
\* any two red tiles a and b of the polygon handed in both area functions give
\* (|a.row - b.row| + 1) * (|a.col - b.col| + 1), whichever of a and b comes
\* first.
C37_Part2WithinPart1 ==
    entry_point = "problem" =>
        \/ /\ 1 <= largest
           /\ largest <= part1(red)
           /\ pc = "edges" =>
                 \A i \in 1..Len(red) : \A j \in 1..Len(red) :
                     LET a == red[i]
                         b == red[j]
                         expected == (Abs(a[1] - b[1]) + 1) * (Abs(a[2] - b[2]) + 1)
                     IN  /\ area(a, b) = expected
                         /\ main_area(a, b) = expected
                         /\ area(b, a) = expected
                         /\ main_area(b, a) = expected
        \/ ~ValidPolygon(red)

C37_Witness ==
    /\ entry_point = "problem"
    /\ pc = "done"
    /\ ValidPolygon(red)
    /\ 1 < largest
    /\ largest < part1(red)

\* The failures of the arithmetic on rows in BandIter::next.
RowErrors ==
    {"band_top <= maybe_done_bottom", "attempt to subtract with overflow",
     "band_top <= band_bottom"}

\* C38 (no underflow in band_bottom): at every call of BandIter::next no edge
\* of `next` ends above band_top, the edges left in `next` once those ending on
\* band_top are dropped end below band_top, and every edge of `unreached`
\* starts below band_top; so the row 1 is subtracted from is greater than
\* band_top, hence at least 1, and none of band_top <= maybe_done_bottom,
\* the subtraction and band_top <= band_bottom fails, a band top of row 0
\* included.
C38_NoUnderflow ==
    /\ err \notin RowErrors
    /\ HeapsFilled /\ pc # "failed" =>
          /\ \A i \in 1..Len(next) : next_row <= edge_bottom(next[i])
          /\ \A i \in 1..Len(unreached) : next_row < edge_top(unreached[i])
    /\ pc = "next" /\ next # <<>> =>
          LET dropped == DropDone(next, next_row)
              r == NextResult(next_row, next, unreached)
          IN  /\ dropped.err = ""
              /\ \A i \in 1..Len(dropped.next) :
                    /\ next_row < edge_bottom(dropped.next[i])
                    /\ edge_bottom(dropped.next[i]) - 1 >= 0
              /\ \A i \in 1..Len(unreached) : edge_top(unreached[i]) - 1 >= 0
              /\ r.err \notin RowErrors
              /\ r.err = "" => r.band.rows.start <= r.band.rows.end

C38_Witness ==
    /\ pc = "next"
    /\ next_row = 0
    /\ unreached # <<>>
    /\ LET dropped == DropDone(next, next_row)
           r == NextResult(next_row, next, unreached)
       IN  /\ dropped.next # <<>>
           /\ Len(dropped.next) < Len(next)
           /\ r.err = ""
           /\ ~r.includes_bottom_edge
           /\ r.band.rows.end = 0

\* The subranges divide_range is to yield: none for an empty range, else the
\* range cut at every multiple of scale inside it.
Cuts(range, scale) ==
    {range.start, range.end}
        \cup {x \in range.start..range.end : x % scale = 0}

Expected(range, scale) ==
    IF range.start >= range.end
    THEN <<>>
    ELSE LET cuts == Cuts(range, scale)
             n == Cardinality(cuts) - 1
             Nth(k) == CHOOSE x \in cuts : Cardinality({y \in cuts : y < x}) = k
         IN  [k \in 1..n |-> Run(Nth(k - 1), Nth(k))]

\* C39, as stated: for scale > 0 divide_range yields, in increasing order,
\* non-empty subranges that each lie in one block [k * scale, (k + 1) * scale),
\* that follow one another from range.start on, and that make up exactly
\* `range` when the iterator ends; the iterator does end, without a panic; an
\* empty range yields nothing.
C39_DivideRange ==
    entry_point = "render" /\ div_scale > 0 =>
        /\ pc # "failed"
        /\ \A i \in 1..Len(yielded) : yielded[i] = Expected(div_range, div_scale)[i]
        /\ Len(yielded) <= Len(Expected(div_range, div_scale))
        /\ \A i \in 1..Len(yielded) :
              /\ yielded[i].start < yielded[i].end
              /\ yielded[i].start \div div_scale = (yielded[i].end - 1) \div div_scale
              /\ i > 1 => yielded[i - 1].end = yielded[i].start
        /\ pc = "exhausted" => yielded = Expected(div_range, div_scale)

\* The additions of divide_range on this range stay below MaxWord: the last
\* call adds scale to the start of the block after the one that holds the
\* last value of the range or, for an empty range, to the start of the block
\* that holds range.start.
FitsU64(range, scale) ==
    IF range.start >= range.end
    THEN (range.start \div scale + 1) * scale <= MaxWord - 1
    ELSE ((range.end - 1) \div scale + 2) * scale <= MaxWord - 1

\* C39 away from the top of u64: the same, for the ranges on which no addition
\* overflows.
C39_DivideRangeFitting ==
    entry_point = "render" /\ div_scale > 0 /\ FitsU64(div_range, div_scale) => C39_DivideRange

====
